---- MODULE Spec2Model ----
(***************************************************************************)
(* A model of the shared-list bot: the SQLite tables behind db::Database   *)
(* (items, chat_state, delete_session), the chat transport as the bot sees *)
(* it (messages it sent, per chat), and the handlers of src/src/handlers   *)
(* as tasks that take one step per awaited call.                           *)
(*                                                                         *)
(* Option<T> is modelled as a sequence: None is << >>, Some(v) is <<v>>.   *)
(***************************************************************************)
EXTENDS Integers, Sequences, FiniteSets, TLC

\* ------------------------------------------------------------------ bounds
\* Largest item id the AUTOINCREMENT counter may hand out.
MaxItems == 2
\* Largest item id in the scenarios of the item store alone.
MaxStoreItems == 3
\* Most messages the bot sends in one scenario, over all chats.
MaxMsg == 3
\* Most transport calls that fail in one scenario.
MaxFaults == 1
\* The latest statement against the store, counted within one handler, that
\* a scenario lets fail.
MaxStatements == 6
\* The requests per second the scenarios allow the HTTP API.
RateLimit == 2
\* The ticks of the clock in one second.
TicksPerSecond == 2
\* The last tick of a scenario.
MaxNow == 3
\* Most messages the bot sends in a scenario with /archive_done, which sends
\* three by itself.
MaxArchiveMsg == 4
\* Most messages the bot sends in a scenario with a list and two /delete in a
\* group: the list, two notices and two panels.
MaxReenterMsg == 5

\* ------------------------------------------------------------- input sets
Users == {1, 2}
Groups == {10}
\* A private chat has the id of its user (ChatId(user_id.0 as i64)).
Chats == Users \cup Groups
\* The chats in which the scenarios keep a list.
ListChats == {1, 10}
Texts == {"Milk", "Eggs"}
Tasks == {1, 2}
\* The ids of the selected sets that are written and read back on their own:
\* of one, two and three digits, zero and negative ones.
CodecIds == {-12, -1, 0, 1, 7, 10, 21, 100}

None == << >>
Some(v) == <<v>>
IsSome(o) == o # << >>
Unwrap(o) == o[1]

is_private(c) == c \in Users

\* The set of elements of a sequence.
Range(s) == {s[i] : i \in 1..Len(s)}

\* --------------------------------------------------- selected-set encoding
Digits == "0123456789"
Char(s, i) == SubSeq(s, i, i)
IsDigit(c) == \E d \in 1..10 : Char(Digits, d) = c
DigitVal(c) == (CHOOSE d \in 1..10 : Char(Digits, d) = c) - 1

\* i64::to_string: the decimal digits, after a "-" for a negative number.
RECURSIVE to_string(_)
to_string(n) ==
    IF n < 0 THEN "-" \o to_string(0 - n)
    ELSE IF n < 10 THEN Char(Digits, n + 1)
    ELSE to_string(n \div 10) \o Char(Digits, (n % 10) + 1)

\* The ids of a set in ascending order (ids.sort_unstable()).
RECURSIVE sort_unstable(_)
sort_unstable(set) ==
    IF set = {} THEN << >>
    ELSE LET m == CHOOSE x \in set : \A y \in set : x <= y
         IN <<m>> \o sort_unstable(set \ {m})

RECURSIVE join(_, _)
join(strs, sep) ==
    IF Len(strs) = 0 THEN ""
    ELSE IF Len(strs) = 1 THEN strs[1]
    ELSE strs[1] \o sep \o join(Tail(strs), sep)

\* The ids written one after the other with nothing between them
join_unseparated(set) ==
    LET ids == sort_unstable(set)
    IN join([i \in 1..Len(ids) |-> to_string(ids[i])], "")

join_selected(set) ==
    LET ids == sort_unstable(set)
    IN join([i \in 1..Len(ids) |-> to_string(ids[i])], ",")

\* str::split(','): the pieces between commas; "" splits into one empty piece.
RECURSIVE split(_, _)
split(s, acc) ==
    IF Len(s) = 0 THEN <<acc>>
    ELSE IF Char(s, 1) = "," THEN <<acc>> \o split(SubSeq(s, 2, Len(s)), "")
    ELSE split(SubSeq(s, 2, Len(s)), acc \o Char(s, 1))

RECURSIVE digits_value(_, _)
digits_value(s, acc) ==
    IF Len(s) = 0 THEN acc
    ELSE digits_value(SubSeq(s, 2, Len(s)), acc * 10 + DigitVal(Char(s, 1)))

\* str::parse::<i64>(): an optional sign and at least one digit, else Err.
parse_i64(p) ==
    LET signed == Len(p) > 0 /\ Char(p, 1) \in {"-", "+"}
        body == IF signed THEN SubSeq(p, 2, Len(p)) ELSE p
        ok == Len(body) > 0 /\ \A i \in 1..Len(body) : IsDigit(Char(body, i))
    IN IF ~ok THEN None
       ELSE IF signed /\ Char(p, 1) = "-" THEN Some(0 - digits_value(body, 0))
       ELSE Some(digits_value(body, 0))

parse_selected(s) ==
    LET parts == split(s, "")
    IN {Unwrap(parse_i64(parts[i])) :
            i \in {j \in 1..Len(parts) : IsSome(parse_i64(parts[j]))}}

\* ------------------------------------------------------------ items table
\* A row of items is [id, chat_id, text, done]; the table is a set of rows.
Item(row) == [id |-> row.id, text |-> row.text, done |-> row.done]

\* The largest id of a row of the table, 0 for an empty table.
max_rowid(tbl) == IF tbl = {} THEN 0 ELSE CHOOSE m \in {r.id : r \in tbl} : \A r \in tbl : r.id <= m

\* INSERT INTO a table whose id is INTEGER PRIMARY KEY without AUTOINCREMENT:
\* the new row takes the largest id in the table plus one.
add_item_rowid(tbl, seq, chat_id, text) ==
    [items |-> tbl \cup {[id |-> max_rowid(tbl) + 1, chat_id |-> chat_id,
                          text |-> text, done |-> FALSE]},
     seq |-> max_rowid(tbl) + 1,
     affected |-> 1]

\* INSERT INTO items (chat_id, text): AUTOINCREMENT takes the next id.
add_item_count(tbl, seq, chat_id, text) ==
    [items |-> tbl \cup {[id |-> seq + 1, chat_id |-> chat_id,
                          text |-> text, done |-> FALSE]},
     seq |-> seq + 1,
     affected |-> 1]

\* builder.push_values(items, ...): one row per text, in the order of the texts.
RECURSIVE push_values(_, _, _, _)
push_values(tbl, seq, chat_id, texts) ==
    IF Len(texts) = 0 THEN [items |-> tbl, seq |-> seq]
    ELSE LET r == add_item_count(tbl, seq, chat_id, Head(texts))
         IN push_values(r.items, r.seq, chat_id, Tail(texts))

\* The guard on no item left out: INSERT ... VALUES with no row is not a
\* statement and the store returns an error.
add_items_unguarded(tbl, seq, chat_id, texts) ==
    LET r == push_values(tbl, seq, chat_id, texts)
    IN [items |-> r.items, seq |-> r.seq, affected |-> Len(texts), ok |-> Len(texts) > 0]

\* INSERT INTO items (chat_id, text) VALUES (?, ?), ...; Ok(0) with no
\* statement for no item.
add_items_count(tbl, seq, chat_id, texts) ==
    IF Len(texts) = 0 THEN [items |-> tbl, seq |-> seq, affected |-> 0, ok |-> TRUE]
    ELSE LET r == push_values(tbl, seq, chat_id, texts)
         IN [items |-> r.items, seq |-> r.seq, affected |-> Len(texts), ok |-> TRUE]

\* SELECT id, text, done FROM items WHERE chat_id = ? ORDER BY id
RECURSIVE order_by_id(_)
order_by_id(rows) ==
    IF rows = {} THEN << >>
    ELSE LET r == CHOOSE x \in rows : \A y \in rows : x.id <= y.id
         IN <<Item(r)>> \o order_by_id(rows \ {r})

\* SELECT id, text, done FROM items ORDER BY id  -- the chat condition forgotten
list_all_items(tbl, chat_id) == order_by_id(tbl)

list_items(tbl, chat_id) == order_by_id({r \in tbl : r.chat_id = chat_id})

\* UPDATE items SET done = NOT done WHERE id = ?  -- the chat condition forgotten
toggle_item_any_chat(tbl, chat_id, id) ==
    LET hit == {r \in tbl : r.id = id}
    IN [items |-> (tbl \ hit) \cup {[r EXCEPT !.done = ~r.done] : r \in hit},
        affected |-> Cardinality(hit)]

\* UPDATE items SET done = NOT done WHERE id = ? AND chat_id = ?
toggle_item_count(tbl, chat_id, id) ==
    LET hit == {r \in tbl : r.id = id /\ r.chat_id = chat_id}
    IN [items |-> (tbl \ hit) \cup {[r EXCEPT !.done = ~r.done] : r \in hit},
        affected |-> Cardinality(hit)]

\* DELETE FROM items WHERE chat_id = ?  -- the id condition forgotten
delete_item_any_id(tbl, chat_id, id) ==
    LET hit == {r \in tbl : r.chat_id = chat_id}
    IN [items |-> tbl \ hit, affected |-> Cardinality(hit)]

\* The row of the id, or the chat's next row when the id has none: a delete
\* that removes something each time it runs.
delete_item_or_next(tbl, chat_id, id) ==
    LET rows == {r \in tbl : r.chat_id = chat_id /\ r.id >= id}
        hit == {r \in rows : \A o \in rows : r.id <= o.id}
    IN [items |-> tbl \ hit, affected |-> Cardinality(hit)]

\* DELETE FROM items WHERE id = ? AND chat_id = ?
delete_item_count(tbl, chat_id, id) ==
    LET hit == {r \in tbl : r.id = id /\ r.chat_id = chat_id}
    IN [items |-> tbl \ hit, affected |-> Cardinality(hit)]

\* DELETE FROM items WHERE chat_id = ?
delete_all_items_count(tbl, chat_id) ==
    LET hit == {r \in tbl : r.chat_id = chat_id}
    IN [items |-> tbl \ hit, affected |-> Cardinality(hit)]

\* DELETE FROM items WHERE chat_id = ? AND id IN (...); no statement for no ids.
delete_items_count(tbl, chat_id, ids) ==
    IF Len(ids) = 0 THEN [items |-> tbl, affected |-> 0]
    ELSE LET hit == {r \in tbl : r.chat_id = chat_id /\ r.id \in Range(ids)}
         IN [items |-> tbl \ hit, affected |-> Cardinality(hit)]

\* ------------------------------------------------------- chat_state table
\* chat_state is a set of rows [chat_id, last_list_message_id];
\* chat_id is its PRIMARY KEY.
\* SELECT last_list_message_id FROM chat_state  -- the chat condition forgotten
get_any_list_message_id(tbl, chat_id) ==
    IF tbl = {} THEN None ELSE Some((CHOOSE r \in tbl : TRUE).last_list_message_id)

\* SELECT last_list_message_id FROM chat_state WHERE chat_id = ? (fetch_optional)
get_last_list_message_id(tbl, chat_id) ==
    LET hit == {r \in tbl : r.chat_id = chat_id}
    IN IF hit = {} THEN None
       ELSE Some((CHOOSE r \in hit : TRUE).last_list_message_id)

\* INSERT INTO chat_state with no ON CONFLICT clause and no key
insert_last_list_message_id(tbl, chat_id, message_id) ==
    tbl \cup {[chat_id |-> chat_id, last_list_message_id |-> message_id]}

\* INSERT ... ON CONFLICT(chat_id) DO UPDATE SET last_list_message_id = excluded...
update_last_list_message_id(tbl, chat_id, message_id) ==
    LET hit == {r \in tbl : r.chat_id = chat_id}
    IN IF hit = {}
       THEN tbl \cup {[chat_id |-> chat_id, last_list_message_id |-> message_id]}
       ELSE (tbl \ hit) \cup {[r EXCEPT !.last_list_message_id = message_id] : r \in hit}

\* DELETE FROM chat_state WHERE chat_id = ?
clear_last_list_message_id(tbl, chat_id) == {r \in tbl : r.chat_id # chat_id}

\* --------------------------------------------------- delete_session table
\* delete_session is a set of rows [user_id, chat_id, selected, notice_chat_id,
\* notice_message_id, dm_message_id]; user_id is its PRIMARY KEY, selected is
\* text and the three message columns are nullable.
DeleteSessionRow(user_id, chat_id) ==
    [user_id |-> user_id, chat_id |-> chat_id, selected |-> "",
     notice_chat_id |-> None, notice_message_id |-> None, dm_message_id |-> None]

\* ON CONFLICT(user_id) DO UPDATE SET chat_id = excluded.chat_id alone: the
\* old selection and message columns stay
init_keep_columns(tbl, user_id, chat_id) ==
    LET hit == {r \in tbl : r.user_id = user_id}
    IN IF hit = {}
       THEN tbl \cup {DeleteSessionRow(user_id, chat_id)}
       ELSE (tbl \ hit) \cup {[r EXCEPT !.chat_id = chat_id] : r \in hit}

\* INSERT ... VALUES (?, ?, '') with no ON CONFLICT clause and no key
insert_delete_session(tbl, user_id, chat_id) ==
    tbl \cup {DeleteSessionRow(user_id, chat_id)}

\* INSERT ... VALUES (?, ?, '') ON CONFLICT(user_id) DO UPDATE SET chat_id =
\* excluded.chat_id, selected = '', notice_* = NULL, dm_message_id = NULL
init_delete_session(tbl, user_id, chat_id) ==
    LET hit == {r \in tbl : r.user_id = user_id}
    IN IF hit = {}
       THEN tbl \cup {DeleteSessionRow(user_id, chat_id)}
       ELSE (tbl \ hit) \cup {DeleteSessionRow(r.user_id, chat_id) : r \in hit}

\* The selection written as an upsert: INSERT ... ON CONFLICT(user_id) DO
\* UPDATE SET selected = excluded.selected
update_delete_selection_upsert(tbl, user_id, selected) ==
    IF \E r \in tbl : r.user_id = user_id
    THEN {IF r.user_id = user_id THEN [r EXCEPT !.selected = join_selected(selected)]
          ELSE r : r \in tbl}
    ELSE tbl \cup {[DeleteSessionRow(user_id, 0) EXCEPT !.selected = join_selected(selected)]}

\* UPDATE delete_session SET selected = ? WHERE user_id = ?
update_delete_selection(tbl, user_id, selected) ==
    {IF r.user_id = user_id THEN [r EXCEPT !.selected = join_selected(selected)] ELSE r :
        r \in tbl}

\* UPDATE delete_session SET notice_chat_id = ?, notice_message_id = ? WHERE user_id = ?
set_delete_notice(tbl, user_id, chat_id, message_id) ==
    {IF r.user_id = user_id
     THEN [r EXCEPT !.notice_chat_id = Some(chat_id), !.notice_message_id = Some(message_id)]
     ELSE r : r \in tbl}

\* UPDATE delete_session SET dm_message_id = ? WHERE user_id = ?
set_delete_dm_message(tbl, user_id, message_id) ==
    {IF r.user_id = user_id THEN [r EXCEPT !.dm_message_id = Some(message_id)] ELSE r :
        r \in tbl}

\* SELECT ... WHERE user_id = ? (fetch_optional), the row decoded into a DeleteSession.
get_delete_session(tbl, user_id) ==
    LET hit == {r \in tbl : r.user_id = user_id}
    IN IF hit = {} THEN None
       ELSE LET row == CHOOSE r \in hit : TRUE
            IN Some([chat_id |-> row.chat_id,
                     selected |-> parse_selected(row.selected),
                     notice |-> IF IsSome(row.notice_chat_id) /\ IsSome(row.notice_message_id)
                                THEN Some(<<Unwrap(row.notice_chat_id),
                                            Unwrap(row.notice_message_id)>>)
                                ELSE None,
                     dm_message_id |-> row.dm_message_id])

\* DELETE FROM delete_session WHERE user_id = ?
clear_delete_session(tbl, user_id) == {r \in tbl : r.user_id # user_id}

\* --------------------------------------------------------- list presenter
\* The emoji of the source are written in ASCII: "[V]" all done, "[x]" done,
\* "[ ]" not done, "[-]" selected for deletion; the label of the Done button
\* is written without its emoji.
NO_ACTIVE_LIST_TO_EDIT == "There is no active list to edit."
LIST_EMPTY_ADD_ITEM == "Your list is empty! Send any message to add an item."
LIST_NOW_EMPTY == "List is now empty!"
NO_ACTIVE_LIST_TO_ARCHIVE == "There is no active list to archive."
LIST_ARCHIVED == "List archived! Send a message to start a new one."
LIST_NUKED == "The active list has been nuked."
CHECKED_ITEMS_ARCHIVED == "Checked items archived!"
NO_CHECKED_ITEMS_TO_ARCHIVE == "There are no checked items to archive."
ARCHIVED_LIST_HEADER == "--- Archived List ---"
DELETE_SELECT_PROMPT == "Select items to delete, then tap 'Done Deleting'."
DELETE_DONE_LABEL == "Done Deleting"
DELETE_DM_FAILED ==
    "Unable to send you a private delete panel. Have you started me in private?"
DELETE_USER_SELECTING == "is selecting items to delete..."
NoKeyboard == << >>

\* The replies of the token commands, by the names handlers::tokens imports.
TOKEN_ISSUED == "TOKEN_ISSUED"
TOKEN_REVOKED == "TOKEN_REVOKED"
TOKEN_NOT_FOUND == "TOKEN_NOT_FOUND"
TOKEN_REVOKE_USAGE == "TOKEN_REVOKE_USAGE"

InlineKeyboardButton(text, data) == [text |-> text, data |-> data]

RECURSIVE concat(_)
concat(strs) == IF Len(strs) = 0 THEN "" ELSE strs[1] \o concat(Tail(strs))

\* all_done computed with any() in place of all()
format_list_any_done(its) ==
    LET all_done == \E i \in 1..Len(its) : its[i].done
        mark(it) == IF all_done THEN "[V]" ELSE IF it.done THEN "[x]" ELSE "[ ]"
    IN [text |-> concat([i \in 1..Len(its) |-> mark(its[i]) \o " " \o its[i].text \o "\n"]),
        keyboard |-> [i \in 1..Len(its) |->
                        InlineKeyboardButton(mark(its[i]) \o " " \o its[i].text,
                                             to_string(its[i].id))]]

format_list(its) ==
    LET all_done == \A i \in 1..Len(its) : its[i].done
        mark(it) == IF all_done THEN "[V]" ELSE IF it.done THEN "[x]" ELSE "[ ]"
    IN [text |-> concat([i \in 1..Len(its) |-> mark(its[i]) \o " " \o its[i].text \o "\n"]),
        keyboard |-> [i \in 1..Len(its) |->
                        InlineKeyboardButton(mark(its[i]) \o " " \o its[i].text,
                                             to_string(its[i].id))]]

\* The confirm button pushed inside the loop's last round: none for no items.
format_delete_list_bare(its, selected) ==
    [text |-> DELETE_SELECT_PROMPT,
     keyboard |-> [i \in 1..Len(its) |->
                     InlineKeyboardButton(
                         (IF its[i].id \in selected THEN "[-]" ELSE "[ ]")
                             \o " " \o its[i].text,
                         "delete_" \o to_string(its[i].id))]
                  \o (IF Len(its) = 0 THEN << >>
                      ELSE <<InlineKeyboardButton(DELETE_DONE_LABEL, "delete_done")>>)]

format_delete_list(its, selected) ==
    [text |-> DELETE_SELECT_PROMPT,
     keyboard |-> [i \in 1..Len(its) |->
                     InlineKeyboardButton(
                         (IF its[i].id \in selected THEN "[-]" ELSE "[ ]")
                             \o " " \o its[i].text,
                         "delete_" \o to_string(its[i].id))]
                  \o <<InlineKeyboardButton(DELETE_DONE_LABEL, "delete_done")>>]

\* -------------------------------------------------------------- transport
\* msgs[c] is the sequence of messages the bot sent to chat c; a message's id
\* is its position.  A deleted message keeps only a tombstone.
Message(kind, text, keyboard) ==
    [kind |-> kind, text |-> text, keyboard |-> keyboard, live |-> TRUE]

Tombstone(m) ==
    [kind |-> "deleted", text |-> "", keyboard |-> NoKeyboard, live |-> FALSE]

Exists(ms, chat, id) == chat \in DOMAIN ms /\ id \in 1..Len(ms[chat])
Live(ms, chat, id) == Exists(ms, chat, id) /\ ms[chat][id].live

\* bot.send_message(chat, text).reply_markup(keyboard): Ok(message) or Err.
send_message(ms, chat, kind, text, keyboard, ok) ==
    IF ok
    THEN [msgs |-> [ms EXCEPT ![chat] = Append(@, Message(kind, text, keyboard))],
          sent |-> Some(Len(ms[chat]) + 1)]
    ELSE [msgs |-> ms, sent |-> None]

\* bot.delete_message(chat, id): it removes a live message when the transport
\* delivers the request.
delete_message(ms, chat, id, ok) ==
    IF ok /\ Live(ms, chat, id) THEN [ms EXCEPT ![chat][id] = Tombstone(@)] ELSE ms

\* bot.edit_message_text(chat, id, text).reply_markup(keyboard)
edit_message_text(ms, chat, id, text, keyboard, ok) ==
    IF ok /\ Live(ms, chat, id)
    THEN [ms EXCEPT ![chat][id].text = text, ![chat][id].keyboard = keyboard]
    ELSE ms

\* ------------------------------------------------------------------ state
VARIABLES
    items,           \* the items table
    items_seq,       \* the AUTOINCREMENT counter of items (sqlite_sequence)
    chat_state,      \* the chat_state table
    delete_session,  \* the delete_session table
    msgs,            \* the transport: messages the bot sent, per chat
    timers,          \* pending delete_after tasks, as <<chat, message id>>
    faults,          \* transport calls that may still fail for no stated reason
    started,         \* the users who opened a private chat with the bot
    odd,             \* per user, the ids toggled an odd number of times (a record)
    flips,           \* the live items whose done flag was flipped an odd number of
                     \* times (a record)
    assigned,        \* every id an item ever had (a record)
    tasks,           \* the handler tasks in flight
    tokens,          \* the tokens table
    limiter,         \* the RateLimiter of the router, None when no limit is configured
    now,             \* the clock, in ticks
    expired,         \* per message, the deletions the delete_after tasks requested
                     \* (a record)
    admitted,        \* the instants of the requests the limiter let through (a record)
    late             \* the UPDATEs of delete_session that found no row of their user,
                     \* as <<user, pc>> (a record)

vars ==
    <<items, items_seq, chat_state, delete_session, msgs, timers, faults, started, odd,
      flips, assigned, tasks, tokens, limiter, now, expired, admitted,
      late>>

\* A task's locals.  kind and pc say which handler runs and where it is; pre
\* is the shared state the handler started from, calls the transport calls
\* it made so far.
IdleTask ==
    [kind |-> "idle", pc |-> "idle", path |-> "", from |-> None, chat |-> 0, msg |-> 0,
     id |-> 0, texts |-> << >>, ids |-> << >>, session |-> None, its |-> << >>,
     ptr |-> None, sent |-> None, info |-> None, todo |-> {}, selected |-> {},
     affected |-> 0, fail_at |-> 0, failed |-> FALSE, result |-> "none", calls |-> << >>,
     pre |-> None, bearer |-> None, token |-> "", served |-> FALSE, given |-> << >>]

\* The shared state with the locals of task t: what a step of t reads and writes.
St(t) ==
    [items |-> items, items_seq |-> items_seq, chat_state |-> chat_state,
     delete_session |-> delete_session, msgs |-> msgs, timers |-> timers,
     faults |-> faults, started |-> started, tokens |-> tokens,
     limiter |-> limiter, now |-> now, tk |-> tasks[t]]

Install(t, st) ==
    /\ items' = st.items
    /\ items_seq' = st.items_seq
    /\ chat_state' = st.chat_state
    /\ delete_session' = st.delete_session
    /\ msgs' = st.msgs
    /\ timers' = st.timers
    /\ faults' = st.faults
    /\ started' = st.started
    /\ tasks' = [tasks EXCEPT ![t] = st.tk]
    /\ tokens' = st.tokens
    /\ limiter' = st.limiter
    /\ now' = now
    /\ expired' = expired
    /\ admitted' = IF st.limiter # None /\ st.tk.served /\ ~tasks[t].served
                   THEN Append(admitted, now)
                   ELSE admitted
    /\ late' = IF /\ tasks[t].pc \in {"t_update", "e_set_dm", "e_set_notice"}
                  /\ st.tk.pc # tasks[t].pc
                  /\ \A r \in delete_session : Some(r.user_id) # tasks[t].from
               THEN late \cup {<<Unwrap(tasks[t].from), tasks[t].pc>>}
               ELSE late

Snapshot ==
    [items |-> items, items_seq |-> items_seq, chat_state |-> chat_state,
     delete_session |-> delete_session, msgs |-> msgs, timers |-> timers,
     assigned |-> assigned, tokens |-> tokens, limiter |-> limiter,
     now |-> now]

\* Task t as a fresh handler of the given kind, about to run from pc.
Begin(t, task) == [St(t) EXCEPT !.tk = [task EXCEPT !.pre = Some(Snapshot)]]

Call(op, chat, msg, ok) == [op |-> op, chat |-> chat, msg |-> msg, ok |-> ok]

Logged(tk, call) == [tk EXCEPT !.calls = Append(@, call)]

Return(tk, res) == [tk EXCEPT !.pc = "done", !.result = res]

Idle(t) == tasks[t].pc = "idle"
AllIdle == \A t \in Tasks : Idle(t)

\* The number of messages the bot sent to the chats cs.
RECURSIVE SentIn(_, _)
SentIn(ms, cs) ==
    IF cs = {} THEN 0
    ELSE LET c == CHOOSE x \in cs : TRUE IN Len(ms[c]) + SentIn(ms, cs \ {c})

\* A transport call succeeds, or fails while the scenario has failures left.
Outcomes(st) == IF st.faults > 0 THEN BOOLEAN ELSE {TRUE}
Charge(st, ok) == IF ok THEN st.faults ELSE st.faults - 1

\* A message to a user's private chat is refused until the user opened it.
DmOutcomes(st, u) == IF u \in st.started THEN Outcomes(st) ELSE {FALSE}
DmCharge(st, u, ok) == IF u \in st.started THEN Charge(st, ok) ELSE st.faults

Init ==
    /\ items = {}
    /\ items_seq = 0
    /\ chat_state = {}
    /\ delete_session = {}
    /\ msgs = [c \in Chats |-> << >>]
    /\ timers = {}
    /\ faults = MaxFaults
    /\ started = {u \in Users : u \in ListChats}
    /\ odd = [u \in Users |-> {}]
    /\ flips = {}
    /\ assigned = {}
    /\ tasks = [t \in Tasks |-> IdleTask]
    /\ tokens = {}
    /\ limiter = None
    /\ now = 0
    /\ expired = << >>
    /\ admitted = << >>
    /\ late = {}

\* A user opens the private chat with the bot.
OpenPrivate(u) ==
    /\ u \notin started
    /\ started' = started \cup {u}
    /\ UNCHANGED <<late, admitted, tokens, limiter, expired, now, items, items_seq, chat_state,
                   delete_session, msgs, timers, faults, odd, flips, assigned, tasks>>

\* ---------------------------------------------------- utils::delete_after
\* The spawn forgotten: nothing is scheduled.
delete_after_never(tm, chat, id) == tm

\* tokio::spawn(sleep; bot.delete_message): the handler does not wait for it.
delete_after(tm, chat, id) == tm \cup {<<chat, id>>}

\* The spawned task wakes up and requests the deletion; a failure is logged.
DeleteAfterFire(c, m) ==
    /\ <<c, m>> \in timers
    /\ \E ok \in Outcomes(St(1)) :
         /\ faults' = Charge(St(1), ok)
         /\ msgs' = delete_message(msgs, c, m, ok)
    /\ timers' = timers \ {<<c, m>>}
    /\ expired' = IF <<c, m>> \in DOMAIN expired
                  THEN [expired EXCEPT ![<<c, m>>] = @ + 1]
                  ELSE expired @@ (<<c, m>> :> 1)
    /\ UNCHANGED <<late, admitted, tokens, limiter, now, items, items_seq, chat_state,
                   delete_session, started, odd, flips, assigned, tasks>>

\* Each step below is one awaited call of a handler with the code up to the
\* next one: it maps the state the task sees to the states the call can leave.

\* ---------------------------------------------- handlers::list::send_list
SendListTask(c) == [IdleTask EXCEPT !.kind = "send_list", !.pc = "s_get", !.chat = c]

\* db.get_last_list_message_id(chat_id)
S_Get(st) ==
    LET ptr == get_last_list_message_id(st.chat_state, st.tk.chat)
    IN {[st EXCEPT !.tk.ptr = ptr,
                   !.tk.pc = IF IsSome(ptr) THEN "s_delete_old" ELSE "s_list"]}

\* bot.delete_message(chat_id, MessageId(msg_id)); an error is logged
S_DeleteOld(st) ==
    {[st EXCEPT !.msgs = delete_message(st.msgs, st.tk.chat, Unwrap(st.tk.ptr), ok),
                !.faults = Charge(st, ok),
                !.tk = [Logged(st.tk, Call("delete", st.tk.chat, Unwrap(st.tk.ptr), ok))
                           EXCEPT !.pc = "s_list"]] : ok \in Outcomes(st)}

\* db.list_items(chat_id)
S_List(st) ==
    {[st EXCEPT !.tk.its = list_items(st.items, st.tk.chat), !.tk.pc = "s_send"]}

\* bot.send_message(chat_id, ...).await?  -- the empty notice or the list
S_Send(st) ==
    LET tk == st.tk
        view == format_list(tk.its)
        r(ok) == IF Len(tk.its) = 0
                 THEN send_message(st.msgs, tk.chat, "list", LIST_EMPTY_ADD_ITEM,
                                   NoKeyboard, ok)
                 ELSE send_message(st.msgs, tk.chat, "list", view.text, view.keyboard, ok)
    IN {[st EXCEPT !.msgs = r(ok).msgs,
                   !.faults = Charge(st, ok),
                   !.tk = IF ok
                          THEN [Logged(tk, Call("send", tk.chat, Unwrap(r(ok).sent), ok))
                                   EXCEPT !.sent = r(ok).sent, !.pc = "s_set"]
                          ELSE Return(Logged(tk, Call("send", tk.chat, 0, ok)), "err")] :
            ok \in Outcomes(st)}

\* db.update_last_list_message_id(chat_id, sent.id)
S_Set(st) ==
    {[st EXCEPT !.chat_state =
                    update_last_list_message_id(st.chat_state, st.tk.chat, Unwrap(st.tk.sent)),
                !.tk = Return(st.tk, "ok")]}

\* -------------------------------------------- handlers::list::insert_items
\* With no item the handler returns Ok(0) without a call.
InsertItemsTask(c, texts) ==
    IF Len(texts) = 0
    THEN Return([IdleTask EXCEPT !.kind = "insert_items", !.chat = c], "ok")
    ELSE [IdleTask EXCEPT !.kind = "insert_items", !.pc = "i_add", !.chat = c,
                          !.texts = texts, !.given = texts]

\* db.add_item(chat_id, &item) for the next text; then send_list when added > 0
I_Add(st) ==
    LET tk == st.tk
        r == add_item_count(st.items, st.items_seq, tk.chat, Head(tk.texts))
    IN {[st EXCEPT !.items = r.items,
                   !.items_seq = r.seq,
                   !.tk = [tk EXCEPT !.texts = Tail(@), !.affected = @ + 1,
                                     !.pc = IF Len(tk.texts) = 1 THEN "s_get" ELSE "i_add"]]}

\* ------------------------------------- handlers::delete::enter_delete_mode
delete_dm_text(chat_name, list_text) ==
    "Deleting items from " \o chat_name \o ".\n\n" \o list_text

\* The user's first name is written as the user's id.
delete_user_selecting_text(user) == to_string(user) \o " " \o DELETE_USER_SELECTING

DEFAULT_CHAT_NAME == "your list"

\* msg.chat.title(): a group has a title, a private chat has none.
title(c) == IF is_private(c) THEN None ELSE Some("Family")

\* msg.chat.title().map(ToString::to_string).unwrap_or_else(|| DEFAULT_CHAT_NAME...)
chat_name_of(c) == IF IsSome(title(c)) THEN Unwrap(title(c)) ELSE DEFAULT_CHAT_NAME

\* A /delete command arrives in chat c; from is msg.from (None for a post
\* without a sender).
EnterTask(from, c) ==
    [IdleTask EXCEPT !.kind = "enter", !.pc = "e_delete_cmd", !.from = from, !.chat = c]

\* try_delete_message(&bot, msg.chat.id, msg.id): the user's own command
\* message, which msgs does not hold (message 0 of the call log); an error
\* is logged.
E_DeleteCmd(st) ==
    {[st EXCEPT !.faults = Charge(st, ok),
                !.tk = [Logged(st.tk, Call("delete", st.tk.chat, 0, ok))
                           EXCEPT !.pc = "e_get_pointer"]] : ok \in Outcomes(st)}

\* db.get_last_list_message_id(msg.chat.id).is_none(), then msg.from
E_GetPointer(st) ==
    LET tk == st.tk
        ptr == get_last_list_message_id(st.chat_state, tk.chat)
    IN {[st EXCEPT !.tk = IF ~IsSome(ptr) THEN [tk EXCEPT !.ptr = ptr, !.pc = "e_reply"]
                          ELSE IF ~IsSome(tk.from) THEN Return([tk EXCEPT !.ptr = ptr], "ok")
                          ELSE [tk EXCEPT !.ptr = ptr, !.pc = "e_cleanup"]]}

\* A transient message: bot.send_message(chat, text).await?, then
\* drop(delete_after(bot, sent.chat.id, sent.id, delete_after_timeout))
SendTransient(st, text) ==
    LET tk == st.tk
        r(ok) == send_message(st.msgs, tk.chat, "info", text, NoKeyboard, ok)
    IN {[st EXCEPT !.msgs = r(ok).msgs,
                   !.faults = Charge(st, ok),
                   !.timers = IF ok THEN delete_after(st.timers, tk.chat, Unwrap(r(ok).sent))
                              ELSE st.timers,
                   !.tk = IF ok
                          THEN Return([Logged(tk, Call("send", tk.chat, Unwrap(r(ok).sent), ok))
                                          EXCEPT !.info = r(ok).sent], "ok")
                          ELSE Return(Logged(tk, Call("send", tk.chat, 0, ok)), "err")] :
            ok \in Outcomes(st)}

\* bot.send_message(msg.chat.id, NO_ACTIVE_LIST_TO_EDIT).await?; delete_after
E_Reply(st) == SendTransient(st, NO_ACTIVE_LIST_TO_EDIT)

\* cleanup_previous_session: db.get_delete_session(user_id)
E_Cleanup(st) ==
    LET prev == get_delete_session(st.delete_session, Unwrap(st.tk.from))
    IN {[st EXCEPT !.tk.session = prev,
                   !.tk.pc = IF IsSome(prev) /\ IsSome(Unwrap(prev).notice)
                             THEN "e_cleanup_notice"
                             ELSE IF IsSome(prev) /\ IsSome(Unwrap(prev).dm_message_id)
                             THEN "e_cleanup_dm"
                             ELSE "e_list"]}

\* cleanup_previous_session: try_delete_message(bot, chat_id, msg_id) of the notice
E_CleanupNotice(st) ==
    LET prev == Unwrap(st.tk.session)
        n == Unwrap(prev.notice)
    IN {[st EXCEPT !.msgs = delete_message(st.msgs, n[1], n[2], ok),
                   !.faults = Charge(st, ok),
                   !.tk = [Logged(st.tk, Call("delete", n[1], n[2], ok))
                              EXCEPT !.pc = IF IsSome(prev.dm_message_id)
                                            THEN "e_cleanup_dm" ELSE "e_list"]] :
            ok \in Outcomes(st)}

\* cleanup_previous_session: try_delete_message(bot, ChatId(user_id), dm)
E_CleanupDm(st) ==
    LET u == Unwrap(st.tk.from)
        dm == Unwrap(Unwrap(st.tk.session).dm_message_id)
    IN {[st EXCEPT !.msgs = delete_message(st.msgs, u, dm, ok),
                   !.faults = Charge(st, ok),
                   !.tk = [Logged(st.tk, Call("delete", u, dm, ok)) EXCEPT !.pc = "e_list"]] :
            ok \in Outcomes(st)}

\* The return on an empty list left out: a session starts over no item.
E_ListAlways(st) ==
    {[st EXCEPT !.tk = [st.tk EXCEPT !.its = list_items(st.items, st.tk.chat),
                                     !.pc = "e_init"]]}

\* db.list_items(msg.chat.id); an empty list ends the handler
E_List(st) ==
    LET its == list_items(st.items, st.tk.chat)
    IN {[st EXCEPT !.tk = IF Len(its) = 0 THEN Return([st.tk EXCEPT !.its = its], "ok")
                          ELSE [st.tk EXCEPT !.its = its, !.pc = "e_init"]]}

\* start_delete_session: db.init_delete_session(user.id, msg.chat.id)
E_Init(st) ==
    {[st EXCEPT !.delete_session =
                    init_delete_session(st.delete_session, Unwrap(st.tk.from), st.tk.chat),
                !.tk.pc = "e_send_dm"]}

\* start_delete_session: bot.send_message(UserId(user.id), dm_text).reply_markup(keyboard)
E_SendDm(st) ==
    LET tk == st.tk
        u == Unwrap(tk.from)
        view == format_delete_list(tk.its, {})
        r(ok) == send_message(st.msgs, u, "panel",
                              delete_dm_text(chat_name_of(tk.chat), view.text), view.keyboard, ok)
    IN {[st EXCEPT !.msgs = r(ok).msgs,
                   !.faults = DmCharge(st, u, ok),
                   !.tk = IF ok
                          THEN [Logged(tk, Call("send", u, Unwrap(r(ok).sent), ok))
                                   EXCEPT !.sent = r(ok).sent, !.pc = "e_set_dm"]
                          ELSE [Logged(tk, Call("send", u, 0, ok)) EXCEPT !.pc = "e_warn"]] :
            ok \in DmOutcomes(st, u)}

\* start_delete_session: db.set_delete_dm_message(user.id, dm_msg.id)
E_SetDm(st) ==
    {[st EXCEPT !.delete_session =
                    set_delete_dm_message(st.delete_session, Unwrap(st.tk.from),
                                          Unwrap(st.tk.sent)),
                !.tk = IF ~is_private(st.tk.chat) THEN [st.tk EXCEPT !.pc = "e_send_notice"]
                       ELSE Return(st.tk, "ok")]}

\* start_delete_session: bot.send_message(msg.chat.id, "... is selecting ...").await?
E_SendNotice(st) ==
    LET tk == st.tk
        r(ok) == send_message(st.msgs, tk.chat, "notice",
                              delete_user_selecting_text(Unwrap(tk.from)), NoKeyboard, ok)
    IN {[st EXCEPT !.msgs = r(ok).msgs,
                   !.faults = Charge(st, ok),
                   !.tk = IF ok
                          THEN [Logged(tk, Call("send", tk.chat, Unwrap(r(ok).sent), ok))
                                   EXCEPT !.info = r(ok).sent, !.pc = "e_set_notice"]
                          ELSE Return(Logged(tk, Call("send", tk.chat, 0, ok)), "err")] :
            ok \in Outcomes(st)}

\* start_delete_session: db.set_delete_notice(user.id, msg.chat.id, info.id)
E_SetNotice(st) ==
    {[st EXCEPT !.delete_session =
                    set_delete_notice(st.delete_session, Unwrap(st.tk.from), st.tk.chat,
                                      Unwrap(st.tk.info)),
                !.tk = Return(st.tk, "ok")]}

\* start_delete_session, Err(err) arm: bot.send_message(msg.chat.id,
\* DELETE_DM_FAILED).await?; delete_after(warn)
E_Warn(st) == SendTransient(st, DELETE_DM_FAILED)

\* -------------------------------------- handlers::delete::callback_handler
\* str::strip_prefix
strip_prefix(str, prefix) ==
    IF Len(str) >= Len(prefix) /\ SubSeq(str, 1, Len(prefix)) = prefix
    THEN Some(SubSeq(str, Len(prefix) + 1, Len(str)))
    ELSE None

\* The branch callback_handler takes on the query's data, and the id in it.
Dispatch(data) ==
    LET id_str == strip_prefix(data, "delete_")
    IN IF IsSome(id_str)
       THEN IF Unwrap(id_str) = "done" THEN [path |-> "done", pc |-> "d_get", id |-> 0]
            ELSE IF IsSome(parse_i64(Unwrap(id_str)))
            THEN [path |-> "select", pc |-> "t_get", id |-> Unwrap(parse_i64(Unwrap(id_str)))]
            ELSE [path |-> "none", pc |-> "answer", id |-> 0]
       ELSE IF IsSome(parse_i64(data))
       THEN [path |-> "toggle", pc |-> "g_toggle", id |-> Unwrap(parse_i64(data))]
       ELSE [path |-> "none", pc |-> "answer", id |-> 0]

\* The callback data a user can raise from message m of chat c: its buttons.
Buttons(c, m) == {msgs[c][m].keyboard[i].data : i \in 1..Len(msgs[c][m].keyboard)}

\* User u pressed a button of message m of chat c, carrying data.
CallbackTask(u, c, m, data) ==
    LET d == Dispatch(data)
    IN [IdleTask EXCEPT !.kind = "callback", !.pc = d.pc, !.path = d.path,
                        !.from = Some(u), !.chat = c, !.msg = m, !.id = d.id]

\* The staleness guard left out: every press counts as current.
StaleNever(session, msg_id) == FALSE

\* session.dm_message_id.map(|m| m.0) != Some(msg.id().0)
Stale(session, msg_id) == session.dm_message_id # Some(msg_id)

\* A commit that returns at once when nothing is selected
D_GetSkipEmpty(st) ==
    LET tk == st.tk
        session == get_delete_session(st.delete_session, Unwrap(tk.from))
    IN {[st EXCEPT !.tk =
            IF ~IsSome(session)
            THEN [tk EXCEPT !.session = session, !.pc = "d_delete_panel"]
            ELSE IF Stale(Unwrap(session), tk.msg) \/ Unwrap(session).selected = {}
            THEN [tk EXCEPT !.session = session, !.pc = "answer"]
            ELSE [tk EXCEPT !.session = session,
                            !.todo = Unwrap(session).selected,
                            !.pc = "d_delete_item"]]}

\* The session destroyed first: a current press goes straight to
\* clear_delete_session.
D_GetClearFirst(st) ==
    LET tk == st.tk
        session == get_delete_session(st.delete_session, Unwrap(tk.from))
    IN {[st EXCEPT !.tk =
            IF ~IsSome(session)
            THEN [tk EXCEPT !.session = session, !.pc = "d_delete_panel"]
            ELSE IF Stale(Unwrap(session), tk.msg)
            THEN [tk EXCEPT !.session = session, !.pc = "answer"]
            ELSE [tk EXCEPT !.session = session,
                            !.todo = Unwrap(session).selected,
                            !.pc = "d_clear"]]}

\* process_done_callback: db.get_delete_session(user_id) and the staleness guard
D_Get(st) ==
    LET tk == st.tk
        session == get_delete_session(st.delete_session, Unwrap(tk.from))
    IN {[st EXCEPT !.tk =
            IF ~IsSome(session)
            THEN [tk EXCEPT !.session = session, !.pc = "d_delete_panel"]
            ELSE IF Stale(Unwrap(session), tk.msg)
            THEN [tk EXCEPT !.session = session, !.pc = "answer"]
            ELSE [tk EXCEPT !.session = session,
                            !.todo = Unwrap(session).selected,
                            !.pc = IF Unwrap(session).selected = {}
                                   THEN "d_get_pointer" ELSE "d_delete_item"]]}

\* process_done_callback: db.delete_item(session.chat_id, *id) for the next
\* id of session.selected (a HashSet: any order)
D_DeleteItem(st) ==
    LET tk == st.tk
        r(id) == delete_item_count(st.items, Unwrap(tk.session).chat_id, id)
    IN {[st EXCEPT !.items = r(id).items,
                   !.tk = [tk EXCEPT !.todo = @ \ {id},
                                     !.affected = @ + r(id).affected,
                                     !.pc = IF tk.todo = {id} THEN "d_get_pointer"
                                            ELSE "d_delete_item"]] : id \in tk.todo}

\* process_done_callback: db.get_last_list_message_id(session.chat_id)
D_GetPointer(st) ==
    LET session == Unwrap(st.tk.session)
        ptr == get_last_list_message_id(st.chat_state, session.chat_id)
    IN {[st EXCEPT !.tk.ptr = ptr,
                   !.tk.pc = IF IsSome(ptr) THEN "u_list"
                             ELSE IF IsSome(session.notice) THEN "d_notice"
                             ELSE "d_clear"]}

\* update_message called on the pressed message on every path.
UpdateTargetPressed(tk) == <<tk.chat, tk.msg>>

\* The (chat, message) update_message is called on: the session's list
\* message on the commit path, the pressed message on the toggle path.
UpdateTarget(tk) ==
    IF tk.path = "done" THEN <<Unwrap(tk.session).chat_id, Unwrap(tk.ptr)>>
    ELSE <<tk.chat, tk.msg>>

\* handlers::list::update_message: db.list_items(chat_id)
U_List(st) ==
    {[st EXCEPT !.tk.its = list_items(st.items, UpdateTarget(st.tk)[1]), !.tk.pc = "u_edit"]}

\* update_message dropping the render pointer of its chat when the edit fails
U_EditOrClear(st) ==
    LET tk == st.tk
        target == UpdateTarget(tk)
        view == format_list(tk.its)
    IN {[st EXCEPT !.msgs = IF Len(tk.its) = 0
                            THEN edit_message_text(st.msgs, target[1], target[2],
                                                   LIST_NOW_EMPTY, NoKeyboard, ok)
                            ELSE edit_message_text(st.msgs, target[1], target[2],
                                                   view.text, view.keyboard, ok),
                   !.chat_state = IF ok THEN st.chat_state
                                  ELSE clear_last_list_message_id(st.chat_state, target[1]),
                   !.faults = Charge(st, ok),
                   !.tk = [Logged(tk, Call("edit", target[1], target[2], ok))
                              EXCEPT !.pc = IF tk.path = "done"
                                            THEN IF IsSome(Unwrap(tk.session).notice)
                                                 THEN "d_notice" ELSE "d_clear"
                                            ELSE "answer"]] : ok \in Outcomes(st)}

\* handlers::list::update_message: bot.edit_message_text(...); an error is
\* logged and Ok(()) returned
U_Edit(st) ==
    LET tk == st.tk
        target == UpdateTarget(tk)
        view == format_list(tk.its)
    IN {[st EXCEPT !.msgs = IF Len(tk.its) = 0
                            THEN edit_message_text(st.msgs, target[1], target[2],
                                                   LIST_NOW_EMPTY, NoKeyboard, ok)
                            ELSE edit_message_text(st.msgs, target[1], target[2],
                                                   view.text, view.keyboard, ok),
                   !.faults = Charge(st, ok),
                   !.tk = [Logged(tk, Call("edit", target[1], target[2], ok))
                              EXCEPT !.pc = IF tk.path = "done"
                                            THEN IF IsSome(Unwrap(tk.session).notice)
                                                 THEN "d_notice" ELSE "d_clear"
                                            ELSE "answer"]] : ok \in Outcomes(st)}

\* process_done_callback: try_delete_message(bot, chat_id, notice_id)
D_Notice(st) ==
    LET n == Unwrap(Unwrap(st.tk.session).notice)
    IN {[st EXCEPT !.msgs = delete_message(st.msgs, n[1], n[2], ok),
                   !.faults = Charge(st, ok),
                   !.tk = [Logged(st.tk, Call("delete", n[1], n[2], ok))
                              EXCEPT !.pc = "d_clear"]] : ok \in Outcomes(st)}

\* process_done_callback: db.clear_delete_session(user_id)
D_Clear(st) ==
    {[st EXCEPT !.delete_session =
                    clear_delete_session(st.delete_session, Unwrap(st.tk.from)),
                !.tk.pc = "d_delete_panel"]}

\* process_done_callback: try_delete_message(bot, msg.chat().id, msg.id())
D_DeletePanel(st) ==
    LET tk == st.tk
    IN {[st EXCEPT !.msgs = delete_message(st.msgs, tk.chat, tk.msg, ok),
                   !.faults = Charge(st, ok),
                   !.tk = [Logged(tk, Call("delete", tk.chat, tk.msg, ok))
                              EXCEPT !.pc = "answer"]] : ok \in Outcomes(st)}

\* The flip with the removal forgotten: a pressed id is only ever inserted.
insert_selected(selected, id) == selected \cup {id}

\* if session.selected.contains(&id) { remove } else { insert }
flip_selected(selected, id) ==
    IF id \in selected THEN selected \ {id} ELSE selected \cup {id}

\* toggle_selection: db.get_delete_session(user_id), the staleness guard and
\* the flip of id in the local copy of selected
T_Get(st) ==
    LET tk == st.tk
        session == get_delete_session(st.delete_session, Unwrap(tk.from))
    IN {[st EXCEPT !.tk =
            IF ~IsSome(session) \/ Stale(Unwrap(session), tk.msg)
            THEN [tk EXCEPT !.session = session, !.pc = "answer"]
            ELSE [tk EXCEPT !.session = session,
                            !.selected = flip_selected(Unwrap(session).selected, tk.id),
                            !.pc = "t_update"]]}

\* toggle_selection: db.update_delete_selection(user_id, &session.selected)
T_Update(st) ==
    {[st EXCEPT !.delete_session =
                    update_delete_selection(st.delete_session, Unwrap(st.tk.from),
                                            st.tk.selected),
                !.tk.pc = "t_list"]}

\* toggle_selection: db.list_items(session.chat_id)
T_List(st) ==
    {[st EXCEPT !.tk.its = list_items(st.items, Unwrap(st.tk.session).chat_id),
                !.tk.pc = "t_edit"]}

\* toggle_selection: try_edit_message(bot, msg.chat().id, msg.id(), text, keyboard)
T_Edit(st) ==
    LET tk == st.tk
        view == format_delete_list(tk.its, tk.selected)
    IN {[st EXCEPT !.msgs = edit_message_text(st.msgs, tk.chat, tk.msg, view.text,
                                              view.keyboard, ok),
                   !.faults = Charge(st, ok),
                   !.tk = [Logged(tk, Call("edit", tk.chat, tk.msg, ok))
                              EXCEPT !.pc = "answer"]] : ok \in Outcomes(st)}

\* The toggle as a read and a later write: the flag is set to the negation
\* of what the item had when the handler started.
G_ToggleReadThenWrite(st) ==
    LET tk == st.tk
        hit == {r \in st.items : r.id = tk.id /\ r.chat_id = tk.chat}
        read(r) == IF r.id \in {x.id : x \in Unwrap(tk.pre).items}
                   THEN (CHOOSE x \in Unwrap(tk.pre).items : x.id = r.id).done
                   ELSE r.done
    IN {[st EXCEPT !.items = (st.items \ hit) \cup {[r EXCEPT !.done = ~read(r)] : r \in hit},
                   !.tk.affected = Cardinality(hit),
                   !.tk.pc = "u_list"]}

\* The toggle with the id left out of the statement: every item of the chat
\* is flipped.
G_ToggleWholeList(st) ==
    LET hit == {r \in st.items : r.chat_id = st.tk.chat}
    IN {[st EXCEPT !.items = (st.items \ hit) \cup {[r EXCEPT !.done = ~r.done] : r \in hit},
                   !.tk.affected = Cardinality(hit),
                   !.tk.pc = "u_list"]}

\* callback_handler, plain id: db.toggle_item(msg.chat().id, id)
G_Toggle(st) ==
    LET r == toggle_item_count(st.items, st.tk.chat, st.tk.id)
    IN {[st EXCEPT !.items = r.items, !.tk.affected = r.affected, !.tk.pc = "u_list"]}

\* callback_handler: bot.answer_callback_query(q.id).await?
Answer(st) ==
    {[st EXCEPT !.faults = Charge(st, ok),
                !.tk = Return(Logged(st.tk, Call("answer", st.tk.chat, 0, ok)),
                              IF ok THEN "ok" ELSE "err")] : ok \in Outcomes(st)}

\* --------------------------------------------------- handlers::list_service
\* A reply that is awaited with `?` and stays: bot.send_message(chat_id, text)
SendPlain(st, kind, text, next) ==
    LET tk == st.tk
        r(ok) == send_message(st.msgs, tk.chat, kind, text, NoKeyboard, ok)
    IN {[st EXCEPT !.msgs = r(ok).msgs,
                   !.faults = Charge(st, ok),
                   !.tk = IF ~ok
                          THEN Return(Logged(tk, Call("send", tk.chat, 0, ok)), "err")
                          ELSE IF next = "done"
                          THEN Return(Logged(tk, Call("send", tk.chat, Unwrap(r(ok).sent),
                                                      ok)), "ok")
                          ELSE [Logged(tk, Call("send", tk.chat, Unwrap(r(ok).sent), ok))
                                   EXCEPT !.pc = next]] :
            ok \in Outcomes(st)}

\* try_delete_message(&bot, chat_id, last_message_id): an error is logged
TryDeletePointer(st, next) ==
    {[st EXCEPT !.msgs = delete_message(st.msgs, st.tk.chat, Unwrap(st.tk.ptr), ok),
                !.faults = Charge(st, ok),
                !.tk = [Logged(st.tk, Call("delete", st.tk.chat, Unwrap(st.tk.ptr), ok))
                           EXCEPT !.pc = next]] : ok \in Outcomes(st)}

\* /archive and /archive_done; path says which of the two runs.
ArchiveTask(c) ==
    [IdleTask EXCEPT !.kind = "archive", !.path = "archive", !.pc = "v_get", !.chat = c]

ArchiveCheckedTask(c) ==
    [IdleTask EXCEPT !.kind = "archive_checked", !.path = "archive_checked", !.pc = "v_get",
                     !.chat = c]

\* load_active_items: db.get_last_list_message_id(chat_id)
V_Get(st) ==
    LET ptr == get_last_list_message_id(st.chat_state, st.tk.chat)
    IN {[st EXCEPT !.tk.ptr = ptr, !.tk.pc = IF IsSome(ptr) THEN "v_list" ELSE "v_none"]}

\* bot.send_message(chat_id, empty_message).await?; return Ok(None)
V_None(st) == SendPlain(st, "text", NO_ACTIVE_LIST_TO_ARCHIVE, "done")

done_items(its) == SelectSeq(its, LAMBDA it : it.done)
remaining_items(its) == SelectSeq(its, LAMBDA it : ~it.done)

\* load_items_or_notify: db.list_items(chat_id); archive_checked goes on
\* with items.into_iter().partition(|i| i.done), and calls archive when no
\* item remains.
V_List(st) ==
    LET tk == st.tk
        its == list_items(st.items, tk.chat)
        at == [tk EXCEPT !.its = its]
    IN {[st EXCEPT !.tk =
            IF Len(its) = 0 THEN [at EXCEPT !.pc = "v_none"]
            ELSE IF tk.path = "archive" THEN [at EXCEPT !.pc = "v_delete_old"]
            ELSE IF Len(done_items(its)) = 0 THEN [at EXCEPT !.pc = "c_none"]
            ELSE IF Len(remaining_items(its)) = 0
            THEN [at EXCEPT !.path = "archive", !.pc = "v_get"]
            ELSE [at EXCEPT !.pc = "c_delete_old"]]}

\* archive: try_delete_message(&bot, chat_id, last_message_id)
V_DeleteOld(st) == TryDeletePointer(st, "v_send")

\* bot.send_message(chat_id, archived_text).await?
V_Send(st) ==
    SendPlain(st, "archive", ARCHIVED_LIST_HEADER \o "\n" \o format_list(st.tk.its).text,
              "v_delete_all")

\* self.db.delete_all_items_count(chat_id).await?
V_DeleteAll(st) ==
    LET u == delete_all_items_count(st.items, st.tk.chat)
    IN {[st EXCEPT !.items = u.items, !.tk.affected = u.affected, !.tk.pc = "v_clear"]}

\* archive with the pointer left in place.
V_ClearNothing(st) == {[st EXCEPT !.tk.pc = "v_notice"]}

\* self.db.clear_last_list_message_id(chat_id).await?
V_Clear(st) ==
    {[st EXCEPT !.chat_state = clear_last_list_message_id(st.chat_state, st.tk.chat),
                !.tk.pc = "v_notice"]}

\* bot.send_message(chat_id, LIST_ARCHIVED).await?
V_Notice(st) == SendPlain(st, "text", LIST_ARCHIVED, "done")

\* archive_checked: bot.send_message(chat_id, NO_CHECKED_ITEMS_TO_ARCHIVE).await?
C_None(st) == SendPlain(st, "text", NO_CHECKED_ITEMS_TO_ARCHIVE, "done")

\* try_delete_message(&bot, chat_id, last_message_id)
C_DeleteOld(st) == TryDeletePointer(st, "c_send")

\* bot.send_message(chat_id, archived_text).await?  -- the done items
C_Send(st) ==
    SendPlain(st, "archive",
              ARCHIVED_LIST_HEADER \o "\n" \o format_list(done_items(st.tk.its)).text,
              "c_delete")

\* archive_checked that deletes every item of the list.
C_DeleteEvery(st) ==
    LET u == delete_all_items_count(st.items, st.tk.chat)
    IN {[st EXCEPT !.items = u.items, !.tk.affected = u.affected, !.tk.pc = "c_notice"]}

\* self.db.delete_items_count(chat_id, &ids).await?
C_Delete(st) ==
    LET done == done_items(st.tk.its)
        u == delete_items_count(st.items, st.tk.chat, [i \in 1..Len(done) |-> done[i].id])
    IN {[st EXCEPT !.items = u.items, !.tk.affected = u.affected, !.tk.pc = "c_notice"]}

\* bot.send_message(chat_id, CHECKED_ITEMS_ARCHIVED).await?; then
\* send_list_message(&bot, chat_id, &remaining): the send and the pointer of
\* send_list
C_Notice(st) ==
    {[nx EXCEPT !.tk.its = IF nx.tk.pc = "s_send" THEN remaining_items(st.tk.its) ELSE @] :
        nx \in SendPlain(st, "text", CHECKED_ITEMS_ARCHIVED, "s_send")}

\* /nuke
NukeTask(c) == [IdleTask EXCEPT !.kind = "nuke", !.pc = "n_delete_command", !.chat = c]

\* try_delete_message(&bot, msg.chat.id, msg.id): the user's command message,
\* which is none of the bot's; an error is logged
N_DeleteCommand(st) ==
    {[st EXCEPT !.faults = Charge(st, ok),
                !.tk = [Logged(st.tk, Call("delete_command", st.tk.chat, 0, ok))
                           EXCEPT !.pc = "n_get"]] : ok \in Outcomes(st)}

\* self.db.get_last_list_message_id(msg.chat.id).await?
N_Get(st) ==
    LET ptr == get_last_list_message_id(st.chat_state, st.tk.chat)
    IN {[st EXCEPT !.tk.ptr = ptr,
                   !.tk.pc = IF IsSome(ptr) THEN "n_delete_old" ELSE "n_delete_all"]}

\* try_delete_message(&bot, msg.chat.id, MessageId(list_message_id))
N_DeleteOld(st) == TryDeletePointer(st, "n_delete_all")

\* self.db.delete_all_items_count(msg.chat.id).await?
N_DeleteAll(st) ==
    LET u == delete_all_items_count(st.items, st.tk.chat)
    IN {[st EXCEPT !.items = u.items, !.tk.affected = u.affected, !.tk.pc = "n_clear"]}

\* self.db.clear_last_list_message_id(msg.chat.id).await?
N_Clear(st) ==
    {[st EXCEPT !.chat_state = clear_last_list_message_id(st.chat_state, st.tk.chat),
                !.tk.pc = "n_confirm"]}

\* nuke with the confirmation left to stay.
N_ConfirmNoExpiry(st) == SendPlain(st, "info", LIST_NUKED, "done")

\* bot.send_message(msg.chat.id, LIST_NUKED).await?; drop(delete_after(...))
N_Confirm(st) == SendTransient(st, LIST_NUKED)

\* ------------------------------------------- direct calls of the item store
\* The id-scoped statements of db::items as their callers (the HTTP API, the
\* tests) issue them: with any chat and any ids handed out so far.
StoreOps == {"toggle_item_count", "delete_item_count", "delete_items_count"}

StoreTask(op, c, ids) ==
    [IdleTask EXCEPT !.kind = "store", !.pc = "db_call", !.path = op, !.chat = c, !.ids = ids]

StoreCall(st) ==
    LET tk == st.tk
        r == IF tk.path = "toggle_item_count"
             THEN toggle_item_count(st.items, tk.chat, tk.ids[1])
             ELSE IF tk.path = "delete_item_count"
             THEN delete_item_count(st.items, tk.chat, tk.ids[1])
             ELSE delete_items_count(st.items, tk.chat, tk.ids)
    IN {[st EXCEPT !.items = r.items, !.tk = Return([tk EXCEPT !.affected = r.affected], "ok")]}

\* The statements of db::items as the HTTP API and the tests issue them, the
\* adding and listing ones included.
ItemOps ==
    {"add_item_count", "add_items_count", "list_items", "toggle_item_count",
     "delete_item_count", "delete_items_count", "delete_all_items_count"}

ItemsTask(op, c, texts, ids) ==
    [IdleTask EXCEPT !.kind = "items", !.pc = "items_call", !.path = op, !.chat = c,
                     !.texts = texts, !.ids = ids]

ItemsCall(st) ==
    LET tk == st.tk
        same == [items |-> st.items, seq |-> st.items_seq, affected |-> 0, ok |-> TRUE]
        add == add_item_count(st.items, st.items_seq, tk.chat, tk.texts[1])
        r == CASE tk.path = "add_item_count" ->
                    [same EXCEPT !.items = add.items, !.seq = add.seq,
                                 !.affected = add.affected]
               [] tk.path = "add_items_count" ->
                    add_items_count(st.items, st.items_seq, tk.chat, tk.texts)
               [] tk.path = "toggle_item_count" ->
                    LET u == toggle_item_count(st.items, tk.chat, tk.ids[1])
                    IN [same EXCEPT !.items = u.items, !.affected = u.affected]
               [] tk.path = "delete_item_count" ->
                    LET u == delete_item_count(st.items, tk.chat, tk.ids[1])
                    IN [same EXCEPT !.items = u.items, !.affected = u.affected]
               [] tk.path = "delete_items_count" ->
                    LET u == delete_items_count(st.items, tk.chat, tk.ids)
                    IN [same EXCEPT !.items = u.items, !.affected = u.affected]
               [] tk.path = "delete_all_items_count" ->
                    LET u == delete_all_items_count(st.items, tk.chat)
                    IN [same EXCEPT !.items = u.items, !.affected = u.affected]
               [] OTHER -> same
    IN {[st EXCEPT !.items = r.items,
                   !.items_seq = r.seq,
                   !.tk = Return([tk EXCEPT !.affected = r.affected,
                                            !.its = IF tk.path = "list_items"
                                                    THEN list_items(st.items, tk.chat)
                                                    ELSE << >>],
                                 IF r.ok THEN "ok" ELSE "err")]}

\* ------------------------------------------------------------- db::tokens
\* The token strings: two the bot issues, one it never issued.
TokenStrings == {"token-a", "token-b"}
Bearers == {None} \cup {Some(t) : t \in TokenStrings \cup {"wrong-token"}}

\* A row of tokens; the strings generate_token draws are 32 bytes of the OS
\* random source, here ones no row holds yet.
TokenRecord(chat, token, issued_at) ==
    [chat_id |-> chat, token |-> token, issued_at |-> issued_at, last_used_at |-> None,
     revoked_at |-> None]

\* chrono::Utc::now().timestamp(): the clock in whole seconds
timestamp(t) == t \div TicksPerSecond

\* INSERT INTO tokens (chat_id, token, issued_at) VALUES (?, ?, ?)
create_token(tb, chat, token, issued_at) == tb \cup {TokenRecord(chat, token, issued_at)}

\* UPDATE tokens SET revoked_at = ? WHERE chat_id = ? AND token = ? AND
\* revoked_at IS NULL; Ok(rows_affected > 0)
revoke_token(tb, chat, token, revoked_at) ==
    LET hit == {r \in tb : r.chat_id = chat /\ r.token = token /\ r.revoked_at = None}
    IN [tokens |-> (tb \ hit) \cup {[r EXCEPT !.revoked_at = Some(revoked_at)] : r \in hit},
        revoked |-> hit # {}]

\* SELECT chat_id FROM tokens WHERE token = ?, a revoked row included.
use_token_revoked(tb, token, used_at) ==
    LET hit == {r \in tb : r.token = token}
    IN [tokens |-> (tb \ hit) \cup {[r EXCEPT !.last_used_at = Some(used_at)] : r \in hit},
        chats |-> {Some(r.chat_id) : r \in hit} \cup (IF hit = {} THEN {None} ELSE {})]

\* SELECT chat_id FROM tokens WHERE token = ? AND revoked_at IS NULL, then
\* UPDATE tokens SET last_used_at = ? WHERE token = ? AND revoked_at IS NULL.
\* chats holds the rows' chats fetch_optional may return, None when no row
\* matches.
use_token(tb, token, used_at) ==
    LET hit == {r \in tb : r.token = token /\ r.revoked_at = None}
    IN [tokens |-> (tb \ hit) \cup {[r EXCEPT !.last_used_at = Some(used_at)] : r \in hit},
        chats |-> {Some(r.chat_id) : r \in hit} \cup (IF hit = {} THEN {None} ELSE {})]

\* ------------------------------------------------------- handlers::tokens
IssueTokenTask(c, token) ==
    [IdleTask EXCEPT !.kind = "issue_token", !.pc = "k_create", !.chat = c, !.token = token]

\* db.create_token(msg.chat.id, &token, ..., issued_at).await?
K_Create(st) ==
    {[st EXCEPT !.tokens = create_token(st.tokens, st.tk.chat, st.tk.token,
                                        timestamp(st.now)),
                !.tk.pc = "k_send"]}

\* A reply of the token commands: bot.send_message(msg.chat.id, response).await?
TokenReply(st, text) ==
    LET tk == st.tk
        r(ok) == send_message(st.msgs, tk.chat, "token", text, NoKeyboard, ok)
    IN {[st EXCEPT !.msgs = r(ok).msgs,
                   !.faults = Charge(st, ok),
                   !.tk = IF ok
                          THEN Return(Logged(tk, Call("send", tk.chat, Unwrap(r(ok).sent),
                                                      ok)), "ok")
                          ELSE Return(Logged(tk, Call("send", tk.chat, 0, ok)), "err")] :
            ok \in Outcomes(st)}

K_Send(st) == TokenReply(st, TOKEN_ISSUED \o "\n" \o st.tk.token)

\* /revoke with the token given; token.trim().is_empty() leads to the usage
\* reply.
RevokeTokenTask(c, token) ==
    [IdleTask EXCEPT !.kind = "revoke_token",
                     !.pc = IF token = "" THEN "r_usage" ELSE "r_revoke",
                     !.chat = c, !.token = token]

R_Usage(st) == TokenReply(st, TOKEN_REVOKE_USAGE)

\* db.revoke_token(msg.chat.id, token, revoked_at).await?
R_Revoke(st) ==
    LET r == revoke_token(st.tokens, st.tk.chat, st.tk.token, timestamp(st.now))
    IN {[st EXCEPT !.tokens = r.tokens,
                   !.tk.affected = IF r.revoked THEN 1 ELSE 0,
                   !.tk.pc = "r_send"]}

R_Send(st) == TokenReply(st, IF st.tk.affected > 0 THEN TOKEN_REVOKED ELSE TOKEN_NOT_FOUND)

\* --------------------------------------------------------------------- api
\* router(): the RateLimiter built when config.rate_limit_per_second is
\* Some(rate_limit); window is Duration::from_secs(1).
RateLimiter(rate_limit) ==
    [limit |-> rate_limit, window |-> TicksPerSecond, timestamps |-> << >>]

Routes == {"list", "add", "toggle", "delete", "archive", "nuke", "done"}

\* A request: the Authorization bearer (None when the header is missing or
\* not a bearer), the route and the payload.
ApiTask(bearer, route, id, texts) ==
    [IdleTask EXCEPT !.kind = "api", !.pc = "a_auth", !.bearer = bearer, !.path = route,
                     !.id = id, !.texts = texts]

\* require_auth that trusts the bearer: any stored token is accepted.
RequireAuthAnyToken(st) ==
    LET tk == st.tk
    IN IF tk.bearer = None
       THEN {[st EXCEPT !.tk = Return(tk, "unauthorized")]}
       ELSE LET r == use_token_revoked(st.tokens, Unwrap(tk.bearer), timestamp(st.now))
            IN {IF c = None
                THEN [st EXCEPT !.tk = Return(tk, "unauthorized")]
                ELSE [st EXCEPT !.tokens = r.tokens,
                                !.tk.chat = Unwrap(c),
                                !.tk.pc = "a_limit"] : c \in r.chats}

\* require_auth: extract_bearer_token, db.use_token(&token, used_at)
RequireAuth(st) ==
    LET tk == st.tk
    IN IF tk.bearer = None
       THEN {[st EXCEPT !.tk = Return(tk, "unauthorized")]}
       ELSE LET r == use_token(st.tokens, Unwrap(tk.bearer), timestamp(st.now))
            IN {IF c = None
                THEN [st EXCEPT !.tk = Return(tk, "unauthorized")]
                ELSE [st EXCEPT !.tokens = r.tokens,
                                !.tk.chat = Unwrap(c),
                                !.tk.pc = "a_limit"] : c \in r.chats}

\* while let Some(ts) = timestamps.front(): pop_front while
\* now.duration_since(*ts) >= limiter.window
RECURSIVE pop_expired(_, _, _)
pop_expired(ts, t, window) ==
    IF Len(ts) > 0 /\ t - Head(ts) >= window THEN pop_expired(Tail(ts), t, window) ELSE ts

\* rate_limit_requests that counts the request it rejects.
RateLimitCountsRejected(st) ==
    IF st.limiter = None
    THEN {[st EXCEPT !.tk.pc = "a_route"]}
    ELSE LET l == Unwrap(st.limiter)
             ts == pop_expired(l.timestamps, st.now, l.window)
             pushed == Some([l EXCEPT !.timestamps = Append(ts, st.now)])
         IN IF Len(ts) >= l.limit
            THEN {[st EXCEPT !.limiter = pushed, !.tk = Return(st.tk, "rate_limited")]}
            ELSE {[st EXCEPT !.limiter = pushed, !.tk.pc = "a_route"]}

\* rate_limit_requests, the layer between require_auth and the routes when
\* a limit is configured
RateLimitRequests(st) ==
    IF st.limiter = None
    THEN {[st EXCEPT !.tk.pc = "a_route"]}
    ELSE LET l == Unwrap(st.limiter)
             ts == pop_expired(l.timestamps, st.now, l.window)
         IN IF Len(ts) >= l.limit
            THEN {[st EXCEPT !.limiter = Some([l EXCEPT !.timestamps = ts]),
                             !.tk = Return(st.tk, "rate_limited")]}
            ELSE {[st EXCEPT !.limiter = Some([l EXCEPT !.timestamps = Append(ts, st.now)]),
                             !.tk.pc = "a_route"]}

\* toggle_item with the token's list left out of the statement.
ToggleItemAnyList(st) ==
    LET u == toggle_item_any_chat(st.items, st.tk.chat, st.tk.id)
    IN {[st EXCEPT !.items = u.items,
                   !.tk = Return([st.tk EXCEPT !.affected = u.affected],
                                 IF u.affected = 0 THEN "not_found" ELSE "ok")]}

\* toggle_item: db.toggle_item_count(chat_id, payload.id); 404 when affected == 0
toggle_item(st) ==
    LET u == toggle_item_count(st.items, st.tk.chat, st.tk.id)
    IN {[st EXCEPT !.items = u.items,
                   !.tk = Return([st.tk EXCEPT !.affected = u.affected],
                                 IF u.affected = 0 THEN "not_found" ELSE "ok")]}

\* delete_item: db.delete_item_count(chat_id, payload.id); 404 when affected == 0
delete_item(st) ==
    LET u == delete_item_count(st.items, st.tk.chat, st.tk.id)
    IN {[st EXCEPT !.items = u.items,
                   !.tk = Return([st.tk EXCEPT !.affected = u.affected],
                                 IF u.affected = 0 THEN "not_found" ELSE "ok")]}

\* get_list: db.list_items(chat_id)
get_list(st) ==
    {[st EXCEPT !.tk = Return([st.tk EXCEPT !.its = list_items(st.items, st.tk.chat)], "ok")]}

\* add_item: payload.text.trim(), 400 when empty; db.add_item_count
add_item(st) ==
    IF Len(st.tk.texts) = 0
    THEN {[st EXCEPT !.tk = Return(st.tk, "bad_request")]}
    ELSE LET u == add_item_count(st.items, st.items_seq, st.tk.chat, st.tk.texts[1])
         IN {[st EXCEPT !.items = u.items,
                        !.items_seq = u.seq,
                        !.tk = Return([st.tk EXCEPT !.affected = u.affected], "created")]}

\* archive_list and nuke_list: db.delete_all_items_count(chat_id)
archive_list(st) ==
    LET u == delete_all_items_count(st.items, st.tk.chat)
    IN {[st EXCEPT !.items = u.items,
                   !.tk = Return([st.tk EXCEPT !.affected = u.affected], "ok")]}

\* done_list: db.list_items(chat_id)
done_list(st) ==
    {[st EXCEPT !.tk.its = list_items(st.items, st.tk.chat), !.tk.pc = "a_done"]}

\* done_list: db.delete_items_count(chat_id, &done_ids)
done_list_delete(st) ==
    LET its == st.tk.its
        done_ids == SelectSeq(its, LAMBDA it : it.done)
        u == delete_items_count(st.items, st.tk.chat,
                                [i \in 1..Len(done_ids) |-> done_ids[i].id])
    IN {[st EXCEPT !.items = u.items,
                   !.tk = Return([st.tk EXCEPT !.affected = u.affected], "ok")]}

\* The route's handler receives the request.
Route(st) ==
    LET at == [st EXCEPT !.tk.served = TRUE]
    IN CASE st.tk.path = "list" -> get_list(at)
         [] st.tk.path = "add" -> add_item(at)
         [] st.tk.path = "toggle" -> toggle_item(at)
         [] st.tk.path = "delete" -> delete_item(at)
         [] st.tk.path \in {"archive", "nuke"} -> archive_list(at)
         [] st.tk.path = "done" -> done_list(at)
         [] OTHER -> {}

\* ------------------------------------------------------------- scheduling
\* The step task st.tk is at.
Steps(st) ==
    CASE st.tk.pc = "s_get" -> S_Get(st)
      [] st.tk.pc = "s_delete_old" -> S_DeleteOld(st)
      [] st.tk.pc = "s_list" -> S_List(st)
      [] st.tk.pc = "s_send" -> S_Send(st)
      [] st.tk.pc = "s_set" -> S_Set(st)
      [] st.tk.pc = "i_add" -> I_Add(st)
      [] st.tk.pc = "e_delete_cmd" -> E_DeleteCmd(st)
      [] st.tk.pc = "e_get_pointer" -> E_GetPointer(st)
      [] st.tk.pc = "e_reply" -> E_Reply(st)
      [] st.tk.pc = "e_cleanup" -> E_Cleanup(st)
      [] st.tk.pc = "e_cleanup_notice" -> E_CleanupNotice(st)
      [] st.tk.pc = "e_cleanup_dm" -> E_CleanupDm(st)
      [] st.tk.pc = "e_list" -> E_List(st)
      [] st.tk.pc = "e_init" -> E_Init(st)
      [] st.tk.pc = "e_send_dm" -> E_SendDm(st)
      [] st.tk.pc = "e_set_dm" -> E_SetDm(st)
      [] st.tk.pc = "e_send_notice" -> E_SendNotice(st)
      [] st.tk.pc = "e_set_notice" -> E_SetNotice(st)
      [] st.tk.pc = "e_warn" -> E_Warn(st)
      [] st.tk.pc = "d_get" -> D_Get(st)
      [] st.tk.pc = "d_delete_item" -> D_DeleteItem(st)
      [] st.tk.pc = "d_get_pointer" -> D_GetPointer(st)
      [] st.tk.pc = "u_list" -> U_List(st)
      [] st.tk.pc = "u_edit" -> U_Edit(st)
      [] st.tk.pc = "d_notice" -> D_Notice(st)
      [] st.tk.pc = "d_clear" -> D_Clear(st)
      [] st.tk.pc = "d_delete_panel" -> D_DeletePanel(st)
      [] st.tk.pc = "t_get" -> T_Get(st)
      [] st.tk.pc = "t_update" -> T_Update(st)
      [] st.tk.pc = "t_list" -> T_List(st)
      [] st.tk.pc = "t_edit" -> T_Edit(st)
      [] st.tk.pc = "g_toggle" -> G_Toggle(st)
      [] st.tk.pc = "answer" -> Answer(st)
      [] st.tk.pc = "db_call" -> StoreCall(st)
      [] st.tk.pc = "items_call" -> ItemsCall(st)
      [] st.tk.pc = "v_get" -> V_Get(st)
      [] st.tk.pc = "v_none" -> V_None(st)
      [] st.tk.pc = "v_list" -> V_List(st)
      [] st.tk.pc = "v_delete_old" -> V_DeleteOld(st)
      [] st.tk.pc = "v_send" -> V_Send(st)
      [] st.tk.pc = "v_delete_all" -> V_DeleteAll(st)
      [] st.tk.pc = "v_clear" -> V_Clear(st)
      [] st.tk.pc = "v_notice" -> V_Notice(st)
      [] st.tk.pc = "c_none" -> C_None(st)
      [] st.tk.pc = "c_delete_old" -> C_DeleteOld(st)
      [] st.tk.pc = "c_send" -> C_Send(st)
      [] st.tk.pc = "c_delete" -> C_Delete(st)
      [] st.tk.pc = "c_notice" -> C_Notice(st)
      [] st.tk.pc = "n_delete_command" -> N_DeleteCommand(st)
      [] st.tk.pc = "n_get" -> N_Get(st)
      [] st.tk.pc = "n_delete_old" -> N_DeleteOld(st)
      [] st.tk.pc = "n_delete_all" -> N_DeleteAll(st)
      [] st.tk.pc = "n_clear" -> N_Clear(st)
      [] st.tk.pc = "n_confirm" -> N_Confirm(st)
      [] st.tk.pc = "k_create" -> K_Create(st)
      [] st.tk.pc = "k_send" -> K_Send(st)
      [] st.tk.pc = "r_usage" -> R_Usage(st)
      [] st.tk.pc = "r_revoke" -> R_Revoke(st)
      [] st.tk.pc = "r_send" -> R_Send(st)
      [] st.tk.pc = "a_auth" -> RequireAuth(st)
      [] st.tk.pc = "a_limit" -> RateLimitRequests(st)
      [] st.tk.pc = "a_route" -> Route(st)
      [] st.tk.pc = "a_done" -> done_list_delete(st)
      [] OTHER -> {}

\* The steps that are one statement against the store.
StorePcs ==
    {"s_get", "s_list", "s_set", "i_add", "e_get_pointer", "e_cleanup", "e_list", "e_init",
     "e_set_dm", "e_set_notice", "d_get", "d_delete_item", "d_get_pointer", "u_list",
     "d_clear", "t_get", "t_update", "t_list", "g_toggle", "db_call", "items_call",
     "k_create", "r_revoke", "a_auth", "a_route", "a_done", "v_get", "v_list",
     "v_delete_all", "v_clear", "c_delete", "n_get", "n_delete_all", "n_clear"}

\* Every statement against the store is awaited with `?`: when the store
\* fails the statement changes nothing and the handler returns its error.
\* fail_at counts down the statements of the task to the one that fails
\* (0: none fails).
Step(st) ==
    IF st.tk.pc \in StorePcs /\ st.tk.fail_at = 1
    THEN {[st EXCEPT !.tk = Return([st.tk EXCEPT !.fail_at = 0, !.failed = TRUE], "err")]}
    ELSE IF st.tk.pc \in StorePcs /\ st.tk.fail_at > 1
    THEN {[nx EXCEPT !.tk.fail_at = @ - 1] : nx \in Steps(st)}
    ELSE Steps(st)

\* The states a handler can return in when it runs from st with no other
\* handler in between.
RECURSIVE Run(_)
Run(st) == IF st.tk.pc = "done" THEN {st} ELSE UNION {Run(nx) : nx \in Step(st)}

\* The item whose done flag a task's statement flipped: toggle_item of the
\* callback handler or a direct toggle_item_count that affected its row.
ToggledBy(tk) ==
    IF tk.kind = "callback" /\ tk.path = "toggle" /\ tk.affected = 1 THEN {tk.id}
    ELSE IF tk.kind \in {"store", "items"} /\ tk.path = "toggle_item_count"
            /\ tk.affected = 1
    THEN {tk.ids[1]}
    ELSE {}

\* The record of flips after the items ids were flipped once more; the
\* record of an item ends with the item.
Flip(fl, ids, tbl) == ((fl \ ids) \cup (ids \ fl)) \cap {r.id : r \in tbl}

\* The record of ids after a step that left the items tbl.
Assign(as, tbl) == as \cup {r.id : r \in tbl}

\* The record of presses after a handler: a toggle pressed on the panel of
\* its user's session flips its id; an Enter that starts a session and a
\* commit pressed on the panel of the session empty the user's record.
Observe(task, fin) ==
    LET current == \E r \in delete_session :
                       r.user_id = Unwrap(task.from) /\ r.dm_message_id = Some(task.msg)
    IN IF task.kind = "callback" /\ task.path = "select" /\ current
       THEN [odd EXCEPT ![Unwrap(task.from)] = (@ \ {task.id}) \cup ({task.id} \ @)]
       ELSE IF task.kind = "callback" /\ task.path = "done" /\ current
       THEN [odd EXCEPT ![Unwrap(task.from)] = {}]
       ELSE IF task.kind = "enter" /\ Len(fin.tk.its) > 0
       THEN [odd EXCEPT ![Unwrap(task.from)] = {}]
       ELSE odd

\* An event is taken up when no handler is in flight and handled to its end;
\* a scenario ends before the bot sends more than MaxMsg messages.
HandleWithin(task, max) ==
    /\ AllIdle
    /\ \E fin \in Run(Begin(1, task)) :
         /\ SentIn(fin.msgs, Chats) <= max
         /\ Install(1, fin)
         /\ odd' = Observe(task, fin)
         /\ flips' = Flip(flips, ToggledBy(fin.tk), fin.items)
         /\ assigned' = Assign(assigned, fin.items)

Handle(task) == HandleWithin(task, MaxMsg)

\* An event is handled to the statement against the store that fails: the
\* handler returns the store's error.  (Of the handlers run this way none
\* writes delete_session before its last statement, so the record of
\* presses stays.)
HandleFailing(task) ==
    /\ AllIdle
    /\ \E k \in 1..MaxStatements :
         \E fin \in Run(Begin(1, [task EXCEPT !.fail_at = k])) :
             /\ fin.tk.failed
             /\ SentIn(fin.msgs, Chats) <= MaxMsg
             /\ Install(1, fin)
             /\ odd' = odd
             /\ flips' = Flip(flips, {}, fin.items)
             /\ assigned' = Assign(assigned, fin.items)

\* A finished handler's task ends.
Finish(t) ==
    /\ tasks[t].pc = "done"
    /\ tasks' = [tasks EXCEPT ![t] = IdleTask]
    /\ UNCHANGED <<late, admitted, tokens, limiter, expired, now, items, items_seq, chat_state,
                   delete_session, msgs, timers, faults, started, odd, flips, assigned>>

\* Ascending sequences of ids handed out so far, of length 1 or 2.
IdLists ==
    {<<i>> : i \in 1..items_seq}
        \cup {<<p[1], p[2]>> : p \in {q \in (1..items_seq) \X (1..items_seq) : q[1] < q[2]}}

\* The item lines of one message: sequences over Texts.
TextLists == {<< >>, <<"Milk">>, <<"Milk", "Eggs">>}

\* /list
SendList == \E c \in ListChats : Handle(SendListTask(c))

\* A message with item lines
InsertItems ==
    \E c \in ListChats, texts \in TextLists :
        /\ items_seq + Len(texts) <= MaxItems
        /\ Handle(InsertItemsTask(c, texts))

\* /delete
Enter ==
    \E c \in ListChats, from \in {None} \cup {Some(u) : u \in Users} :
        /\ IF IsSome(from) THEN c \in Groups \cup ({Unwrap(from)} \cap started)
           ELSE c \in Groups
        /\ Handle(EnterTask(from, c))

\* User u presses a button of a live message the bot sent to a group or to u.
PressWithin(paths, max) ==
    \E u \in Users, c \in Chats, m \in 1..max :
        /\ c \in Groups \cup {u}
        /\ Live(msgs, c, m)
        /\ \E data \in Buttons(c, m) :
             /\ Dispatch(data).path \in paths
             /\ HandleWithin(CallbackTask(u, c, m, data), max)

Press(paths) == PressWithin(paths, MaxMsg)

\* A press on a delete panel: an item's button or Done Deleting.
PanelPress == Press({"select", "done"})

\* A press on an item of a list message.
ListPress == Press({"toggle"})

StoreOp ==
    \E op \in StoreOps, c \in ListChats, ids \in IdLists :
        /\ op # "delete_items_count" => Len(ids) = 1
        /\ Handle(StoreTask(op, c, ids))

\* A statement of db::items with a chat, item texts and ids handed out so
\* far, or with none.
ItemsOp ==
    \E op \in ItemOps, c \in ListChats, texts \in TextLists, ids \in IdLists \cup {<< >>} :
        /\ items_seq + Len(texts) <= MaxStoreItems
        /\ CASE op = "add_item_count" -> Len(texts) = 1 /\ ids = << >>
             [] op = "add_items_count" -> ids = << >>
             [] op \in {"toggle_item_count", "delete_item_count"} ->
                    Len(ids) = 1 /\ texts = << >>
             [] op = "delete_items_count" -> texts = << >>
             [] OTHER -> texts = << >> /\ ids = << >>
        /\ Handle(ItemsTask(op, c, texts, ids))

\* DELETE /items of the HTTP API: db.delete_item_count(context.chat_id, payload.id)
ApiDelete ==
    \E c \in ListChats, id \in 1..MaxItems :
        /\ id <= items_seq
        /\ Handle(StoreTask("delete_item_count", c, <<id>>))

Open == AllIdle /\ \E u \in Users : OpenPrivate(u)

Timer == AllIdle /\ \E c \in Chats, m \in 1..MaxMsg : DeleteAfterFire(c, m)

\* Events are handled one at a time, each to its end; the transport fails at
\* most MaxFaults times.
Next ==
    \/ SendList \/ InsertItems \/ Enter \/ PanelPress \/ ListPress
    \/ ApiDelete \/ Timer \/ Open \/ Finish(1)

Spec == Init /\ [][Next]_vars

\* The delete workflow: lists are filled, users enter delete mode and press
\* on their panels, and the API deletes items under them.
NextDelete ==
    InsertItems \/ Enter \/ PanelPress \/ ApiDelete \/ Timer \/ Open \/ Finish(1)

SpecDelete == Init /\ [][NextDelete]_vars

\* The list message: /list, new items, presses on the list, the API's delete.
NextList == SendList \/ InsertItems \/ ListPress \/ ApiDelete \/ Finish(1)

SpecList == Init /\ [][NextList]_vars

\* The item store under direct calls.
NextStore == InsertItems \/ StoreOp \/ Finish(1)

SpecStore == Init /\ [][NextStore]_vars

\* Every statement of the item store, in any order.
NextItems == ItemsOp \/ Finish(1)

SpecItems == Init /\ [][NextItems]_vars

\* A message with item lines, and the store fails at one of its statements.
InsertStoreFailure ==
    \E c \in ListChats, texts \in TextLists :
        /\ items_seq + Len(texts) <= MaxItems
        /\ HandleFailing(InsertItemsTask(c, texts))

\* A press on Done Deleting, and the store fails at one of its statements.
CommitStoreFailure ==
    \E u \in Users, c \in Chats, m \in 1..MaxMsg :
        /\ c \in Groups \cup {u}
        /\ Live(msgs, c, m)
        /\ \E data \in Buttons(c, m) :
             /\ Dispatch(data).path = "done"
             /\ HandleFailing(CallbackTask(u, c, m, data))

\* The delete workflow over a store that can fail.
NextFailing ==
    \/ InsertItems \/ Enter \/ PanelPress
    \/ InsertStoreFailure \/ CommitStoreFailure \/ Finish(1)

SpecFailing == Init /\ [][NextFailing]_vars

\* ------------------------------------------ the selected set, written and read
\* A selected set on its way through the selected column: update_delete_selection
\* writes join_selected of it, get_delete_session reads parse_selected of
\* the text.
CodecTask(set) == [IdleTask EXCEPT !.kind = "codec", !.pc = "join", !.selected = set]

InitCodec ==
    /\ items = {}
    /\ items_seq = 0
    /\ chat_state = {}
    /\ delete_session = {}
    /\ msgs = [c \in Chats |-> << >>]
    /\ timers = {}
    /\ faults = MaxFaults
    /\ started = {u \in Users : u \in ListChats}
    /\ odd = [u \in Users |-> {}]
    /\ flips = {}
    /\ assigned = {}
    /\ tokens = {}
    /\ limiter = None
    /\ now = 0
    /\ expired = << >>
    /\ admitted = << >>
    /\ late = {}
    /\ \E set \in SUBSET CodecIds :
         tasks = [t \in Tasks |-> IF t = 1 THEN CodecTask(set) ELSE IdleTask]

\* join_selected(&session.selected), bound to the selected column
JoinSelected ==
    /\ tasks[1].pc = "join"
    /\ tasks' = [tasks EXCEPT ![1].path = join_selected(tasks[1].selected),
                              ![1].pc = "parse"]
    /\ UNCHANGED <<late, admitted, tokens, limiter, expired, now, items, items_seq, chat_state,
                   delete_session, msgs, timers, faults, started, odd, flips, assigned>>

\* parse_selected(&selected) of the text read back
ParseSelected ==
    /\ tasks[1].pc = "parse"
    /\ tasks' = [tasks EXCEPT ![1].todo = parse_selected(tasks[1].path),
                              ![1].pc = "done", ![1].result = "ok"]
    /\ UNCHANGED <<late, admitted, tokens, limiter, expired, now, items, items_seq, chat_state,
                   delete_session, msgs, timers, faults, started, odd, flips, assigned>>

NextCodec == JoinSelected \/ ParseSelected

SpecCodec == InitCodec /\ [][NextCodec]_vars

\* ------------------------------------------------ handlers in flight together
\* Every event is handled by a task of its own and every awaited call is a
\* point where another task can run.
\* Task t takes up a press on an item of a list message, whatever the other
\* task is doing; of the state it starts from it keeps the items.
StartToggle(t) ==
    /\ Idle(t)
    /\ \E u \in Users, c \in Chats, m \in 1..MaxMsg :
         /\ c \in Groups \cup {u}
         /\ Live(msgs, c, m)
         /\ \E data \in Buttons(c, m) :
              /\ Dispatch(data).path = "toggle"
              /\ tasks' = [tasks EXCEPT ![t] = [CallbackTask(u, c, m, data)
                                                  EXCEPT !.pre = Some([items |-> items])]]
    /\ UNCHANGED <<late, admitted, tokens, limiter, expired, now, items, items_seq, chat_state,
                   delete_session, msgs, timers, faults, started, odd, flips, assigned>>

\* Task t runs to its next awaited call; the task of a handler that returns
\* ends.
StepTask(t) ==
    /\ tasks[t].pc \notin {"idle", "done"}
    /\ \E nx \in Step(St(t)) :
         /\ Install(t, IF nx.tk.pc = "done" THEN [nx EXCEPT !.tk = IdleTask] ELSE nx)
         /\ flips' = Flip(flips, IF tasks[t].pc = "g_toggle" THEN ToggledBy(nx.tk) ELSE {},
                          nx.items)
         /\ assigned' = Assign(assigned, nx.items)
    /\ odd' = odd

ToggleStart == \E t \in Tasks : StartToggle(t)
TaskStep == \E t \in Tasks : StepTask(t)
TaskEnd == \E t \in Tasks : Finish(t)

\* The first message with item lines: it leaves the one list message of the
\* scenario.
FirstInsert == SentIn(msgs, Chats) = 0 /\ InsertItems

\* Presses on the items of one list message, handled by two tasks at a time.
NextToggle == FirstInsert \/ ToggleStart \/ TaskStep \/ TaskEnd

SpecToggle == Init /\ [][NextToggle]_vars

\* Task t takes up a press on an item of a delete panel while the other task
\* handles no press on the same item; a press on the panel of the user's
\* session is recorded.
StartSelect(t) ==
    /\ Idle(t)
    /\ \E u \in Users, m \in 1..MaxMsg :
         /\ u \in started
         /\ Live(msgs, u, m)
         /\ \E data \in Buttons(u, m) :
              LET task == CallbackTask(u, u, m, data)
                  current == \E r \in delete_session :
                                 r.user_id = u /\ r.dm_message_id = Some(m)
              IN /\ Dispatch(data).path = "select"
                 /\ \A o \in Tasks \ {t} : tasks[o].pc \notin {"idle", "done"} =>
                        tasks[o].id # task.id
                 /\ tasks' = [tasks EXCEPT ![t] = [task EXCEPT !.pre = Some([items |-> items])]]
                 /\ odd' = IF current THEN [odd EXCEPT ![u] = (@ \ {task.id}) \cup ({task.id} \ @)]
                           ELSE odd
    /\ UNCHANGED <<late, admitted, tokens, limiter, expired, now, items, items_seq, chat_state,
                   delete_session, msgs, timers, faults, started, flips, assigned>>

SelectStart == \E t \in Tasks : StartSelect(t)

\* Presses on different items of a delete panel, handled by two tasks at a
\* time.
NextSelect == FirstInsert \/ Enter \/ SelectStart \/ TaskStep \/ TaskEnd

SpecSelect == Init /\ [][NextSelect]_vars

\* Task t takes up a /delete of a user who has a session with a panel, while
\* no other /delete is in flight.
StartEnter(t) ==
    /\ Idle(t)
    /\ \A o \in Tasks : tasks[o].kind # "enter"
    /\ \E u \in Users, c \in ListChats :
         /\ c \in Groups \cup ({u} \cap started)
         /\ \E r \in delete_session : r.user_id = u /\ IsSome(r.dm_message_id)
         /\ tasks' = [tasks EXCEPT ![t] = [EnterTask(Some(u), c)
                                             EXCEPT !.pre = Some([items |-> items])]]
    /\ UNCHANGED <<late, admitted, tokens, limiter, expired, now, items, items_seq, chat_state,
                   delete_session, msgs, timers, faults, started, odd, flips, assigned>>

\* Task t takes up a press of Done Deleting on the panel of the user's
\* session.
StartCommit(t) ==
    /\ Idle(t)
    /\ \A o \in Tasks : ~(tasks[o].kind = "callback" /\ tasks[o].path = "done")
    /\ \E u \in Users, m \in 1..MaxReenterMsg :
         /\ u \in started
         /\ Live(msgs, u, m)
         /\ \E r \in delete_session : r.user_id = u /\ r.dm_message_id = Some(m)
         /\ \E data \in Buttons(u, m) :
              /\ Dispatch(data).path = "done"
              /\ tasks' = [tasks EXCEPT ![t] = [CallbackTask(u, u, m, data)
                                                  EXCEPT !.pre = Some([items |-> items])]]
    /\ UNCHANGED <<late, admitted, tokens, limiter, expired, now, items, items_seq, chat_state,
                   delete_session, msgs, timers, faults, started, odd, flips, assigned>>

\* Task t runs to its next awaited call; a handler that returned keeps its
\* locals until both tasks are at rest.
StepKept(t) ==
    /\ tasks[t].pc \notin {"idle", "done"}
    /\ \E nx \in Step(St(t)) :
         /\ SentIn(nx.msgs, Chats) <= MaxReenterMsg
         /\ Install(t, nx)
         /\ flips' = Flip(flips, {}, nx.items)
         /\ assigned' = Assign(assigned, nx.items)
    /\ odd' = odd

Settle(t) == (\A o \in Tasks : tasks[o].pc \in {"idle", "done"}) /\ Finish(t)

EnterStart == \E t \in Tasks : StartEnter(t)
CommitStart == \E t \in Tasks : StartCommit(t)
KeptStep == \E t \in Tasks : StepKept(t)
TaskSettle == \E t \in Tasks : Settle(t)

\* One list, a first /delete handled alone, then a second /delete and a
\* commit from the first panel, handled by two tasks at a time.
NextReenter == FirstInsert \/ Enter \/ EnterStart \/ CommitStart \/ KeptStep \/ TaskSettle

SpecReenter == Init /\ [][NextReenter]_vars

\* Task t takes up a /list in a chat with a list message.
StartList(t) ==
    /\ Idle(t)
    /\ \E c \in ListChats :
         /\ IsSome(get_last_list_message_id(chat_state, c))
         /\ tasks' = [tasks EXCEPT ![t] = [SendListTask(c)
                                             EXCEPT !.pre = Some([items |-> items])]]
    /\ UNCHANGED <<late, admitted, tokens, limiter, expired, now, items, items_seq, chat_state,
                   delete_session, msgs, timers, faults, started, odd, flips, assigned>>

ListStart == \E t \in Tasks : StartList(t)

\* One list and /list commands handled by two tasks at a time.
NextFresh == FirstInsert \/ ListStart \/ KeptStep \/ TaskSettle

SpecFresh == Init /\ [][NextFresh]_vars

\* The two callers of update_message: presses on the list message and
\* commits of a delete session.
NextUpdate == InsertItems \/ Enter \/ PanelPress \/ ListPress \/ Finish(1)

SpecUpdate == Init /\ [][NextUpdate]_vars

\* ------------------------------------------- /archive, /archive_done, /nuke
\* A message with item lines, in a scenario of up to MaxArchiveMsg messages.
ArchiveInsert ==
    \E c \in ListChats, texts \in TextLists :
        /\ Len(texts) > 0
        /\ items_seq + Len(texts) <= MaxItems
        /\ HandleWithin(InsertItemsTask(c, texts), MaxArchiveMsg)

\* A press on an item of a list message.
ArchiveToggle == PressWithin({"toggle"}, MaxArchiveMsg)

Archive == \E c \in ListChats : HandleWithin(ArchiveTask(c), MaxArchiveMsg)

ArchiveChecked == \E c \in ListChats : HandleWithin(ArchiveCheckedTask(c), MaxArchiveMsg)

Nuke == \E c \in ListChats : HandleWithin(NukeTask(c), MaxArchiveMsg)

NextArchive ==
    ArchiveInsert \/ ArchiveToggle \/ Archive \/ ArchiveChecked \/ Nuke \/ Finish(1)

SpecArchive == Init /\ [][NextArchive]_vars

\* ------------------------------------------------ transient messages expire
\* A task delete_after spawned wakes up, whatever the handlers do meanwhile.
Expire == \E c \in Chats, m \in 1..MaxArchiveMsg : DeleteAfterFire(c, m)

NextExpiry == FirstInsert \/ Enter \/ Nuke \/ Open \/ Expire \/ Finish(1)

\* The runtime runs every spawned task: its sleep ends and its request is
\* made.
SpecExpiry ==
    /\ Init
    /\ [][NextExpiry]_vars
    /\ \A c \in Chats, m \in 1..MaxArchiveMsg : WF_vars(DeleteAfterFire(c, m))

\* ------------------------------------------------- the HTTP API and tokens
\* /token: issue_token with the string generate_token drew, one no row holds;
\* the strings are drawn in one order.
IssueToken ==
    \E c \in ListChats, token \in TokenStrings :
        /\ \A r \in tokens : r.token # token
        /\ token = "token-b" => \E r \in tokens : r.token = "token-a"
        /\ Handle(IssueTokenTask(c, token))

\* /revoke <token>
RevokeToken ==
    \E c \in ListChats, token \in TokenStrings \cup {"wrong-token", ""} :
        Handle(RevokeTokenTask(c, token))

\* A request to the router: any bearer or none, any route, any item id.
ApiRequest ==
    \E bearer \in Bearers, route \in Routes, id \in 0..MaxItems,
       texts \in {<< >>, <<"Milk">>} :
        /\ route \in {"toggle", "delete"} <=> id > 0
        /\ route # "add" => texts = << >>
        /\ items_seq + Len(texts) <= MaxItems
        /\ Handle(ApiTask(bearer, route, id, texts))

\* Time passes.
Tick ==
    /\ AllIdle
    /\ now < MaxNow
    /\ now' = now + 1
    /\ UNCHANGED <<late, admitted, tokens, limiter, expired, items, items_seq, chat_state,
                   delete_session, msgs, timers, faults, started, odd, flips, assigned,
                   tasks>>

\* A second passes.
Second ==
    /\ AllIdle
    /\ now + TicksPerSecond <= MaxNow
    /\ now' = now + TicksPerSecond
    /\ UNCHANGED <<late, admitted, tokens, limiter, expired, items, items_seq, chat_state,
                   delete_session, msgs, timers, faults, started, odd, flips, assigned,
                   tasks>>

\* Requests to the HTTP API with the tokens the bot issued and revoked; no
\* rate limit is configured.
NextApi == IssueToken \/ RevokeToken \/ ApiRequest \/ Second \/ Finish(1)

\* The transport delivers every reply of these scenarios.
InitApi ==
    /\ items = {}
    /\ items_seq = 0
    /\ chat_state = {}
    /\ delete_session = {}
    /\ msgs = [c \in Chats |-> << >>]
    /\ timers = {}
    /\ faults = 0
    /\ started = {u \in Users : u \in ListChats}
    /\ odd = [u \in Users |-> {}]
    /\ flips = {}
    /\ assigned = {}
    /\ tasks = [t \in Tasks |-> IdleTask]
    /\ tokens = {}
    /\ limiter = None
    /\ now = 0
    /\ expired = << >>
    /\ admitted = << >>
    /\ late = {}

SpecApi == InitApi /\ [][NextApi]_vars

\* The router with a limit of RateLimit requests per second, one list and
\* its token.
InitRate ==
    /\ items = {}
    /\ items_seq = 0
    /\ chat_state = {}
    /\ delete_session = {}
    /\ msgs = [c \in Chats |-> << >>]
    /\ timers = {}
    /\ faults = 0
    /\ started = {u \in Users : u \in ListChats}
    /\ odd = [u \in Users |-> {}]
    /\ flips = {}
    /\ assigned = {}
    /\ tasks = [t \in Tasks |-> IdleTask]
    /\ tokens = {}
    /\ limiter = Some(RateLimiter(RateLimit))
    /\ now = 0
    /\ expired = << >>
    /\ admitted = << >>
    /\ late = {}

NextRate == IssueToken \/ ApiRequest \/ Tick \/ Finish(1)

SpecRate == InitRate /\ [][NextRate]_vars

\* ----------------------------------------- late writes to delete_session
\* Task t runs to its next awaited call; the task of a handler that returns
\* ends.
StepFreed(t) ==
    /\ tasks[t].pc \notin {"idle", "done"}
    /\ \E nx \in Step(St(t)) :
         /\ SentIn(nx.msgs, Chats) <= MaxReenterMsg
         /\ Install(t, IF nx.tk.pc = "done" THEN [nx EXCEPT !.tk = IdleTask] ELSE nx)
         /\ flips' = Flip(flips, {}, nx.items)
         /\ assigned' = Assign(assigned, nx.items)
    /\ odd' = odd

FreedStep == \E t \in Tasks : StepFreed(t)

\* The first /delete of the scenario, after the first list message.
FirstEnter == delete_session = {} /\ SentIn(msgs, Chats) = 1 /\ Enter

\* The transport delivers every message.  One list and one /delete handled
\* alone, then presses on the panel's items and on its Done Deleting, handled
\* by two tasks at a time.
NextLate == FirstInsert \/ FirstEnter \/ CommitStart \/ SelectStart \/ FreedStep \/ TaskEnd

SpecLate == InitApi /\ [][NextLate]_vars

\* ------------------------------------------------- a commit handled twice
\* A press on an item of a delete panel, handled alone.
SelectPress == Press({"select"})

\* Task t takes up a press of Done Deleting on a delete panel while no other
\* handler runs.
StartCommitOnce(t) ==
    /\ AllIdle
    /\ \E u \in Users, m \in 1..MaxMsg :
         /\ u \in started
         /\ Live(msgs, u, m)
         /\ \E data \in Buttons(u, m) :
              /\ Dispatch(data).path = "done"
              /\ tasks' = [tasks EXCEPT ![t] = [CallbackTask(u, u, m, data)
                                                  EXCEPT !.pre = Some(Snapshot)]]
    /\ UNCHANGED <<late, admitted, tokens, limiter, expired, now, items, items_seq,
                   chat_state, delete_session, msgs, timers, faults, started, odd, flips,
                   assigned>>

\* Task t takes up the callback query the other task is handling or has
\* handled: the same press, delivered again.
StartCommitAgain(t) ==
    /\ Idle(t)
    /\ \E o \in Tasks \ {t} :
         /\ tasks[o].kind = "callback" /\ tasks[o].path = "done"
         /\ tasks' = [tasks EXCEPT ![t] =
                        [CallbackTask(Unwrap(tasks[o].from), tasks[o].chat, tasks[o].msg,
                                      "delete_done") EXCEPT !.pre = tasks[o].pre]]
    /\ UNCHANGED <<late, admitted, tokens, limiter, expired, now, items, items_seq,
                   chat_state, delete_session, msgs, timers, faults, started, odd, flips,
                   assigned>>

CommitOnce == \E t \in Tasks : StartCommitOnce(t)
CommitAgain == \E t \in Tasks : StartCommitAgain(t)

\* One list, one /delete and presses on the panel's items handled alone, then
\* a commit and its repetition, one after the other or together.
NextTwice ==
    \/ FirstInsert \/ FirstEnter \/ SelectPress \/ CommitOnce \/ CommitAgain
    \/ KeptStep \/ TaskSettle

SpecTwice == Init /\ [][NextTwice]_vars

\* ------------------------------------------------- the list message in use
\* The messages of a scenario that adds, toggles, deletes through a panel and
\* archives the checked items.
MaxViewMsg == 5

\* A message with item lines
ViewInsert ==
    \E c \in ListChats, texts \in TextLists :
        /\ Len(texts) > 0
        /\ items_seq + Len(texts) <= MaxItems
        /\ HandleWithin(InsertItemsTask(c, texts), MaxViewMsg)

\* /delete of a user
ViewEnter ==
    \E c \in ListChats, u \in Users :
        /\ c \in Groups \cup ({u} \cap started)
        /\ HandleWithin(EnterTask(Some(u), c), MaxViewMsg)

\* A press on an item of a list message, on an item of a delete panel or on
\* Done Deleting.
ViewPress == PressWithin({"toggle", "select", "done"}, MaxViewMsg)

\* /archive_done
ViewArchiveChecked ==
    \E c \in ListChats : HandleWithin(ArchiveCheckedTask(c), MaxViewMsg)

NextView ==
    ViewInsert \/ ViewEnter \/ ViewPress \/ ViewArchiveChecked \/ Finish(1)

SpecView == InitApi /\ [][NextView]_vars

\* ------------------------------------- callback queries from another chat
\* User u raises, from a live message of a group, a callback query carrying
\* the data of a button of the panel of u's session: q.data is what the
\* client sends and q.message the message it names.
CrossChatPress ==
    \E u \in Users, c \in Groups, m \in 1..MaxMsg :
        /\ Live(msgs, c, m)
        /\ \E r \in delete_session, p \in 1..MaxMsg :
             /\ r.user_id = u
             /\ r.dm_message_id = Some(p)
             /\ Live(msgs, u, p)
             /\ \E data \in Buttons(u, p) : Handle(CallbackTask(u, c, m, data))

\* The delete workflow with presses on panels and callback queries that name
\* a message of a group.
NextCross == InsertItems \/ Enter \/ PanelPress \/ CrossChatPress \/ Open \/ Finish(1)

SpecCross == Init /\ [][NextCross]_vars

\* --------------------------------------- a selection press and a new /delete
\* A message with item lines while the chats hold at most one list message
\* and nobody is deleting: up to two lists are filled.
StrayInsert == SentIn(msgs, Chats) <= 1 /\ delete_session = {} /\ InsertItems

\* The first /delete, handled alone.
StrayEnter ==
    /\ delete_session = {}
    /\ \E c \in ListChats, u \in Users :
         /\ c \in Groups \cup ({u} \cap started)
         /\ HandleWithin(EnterTask(Some(u), c), MaxReenterMsg)

\* Lists in two chats, a first /delete handled alone, then presses on the
\* panel's items and a second /delete of the user, handled by two tasks at
\* a time.  No handler of these scenarios deletes an item.
NextStray ==
    StrayInsert \/ StrayEnter \/ EnterStart \/ SelectStart \/ KeptStep \/ TaskSettle

SpecStray == InitApi /\ [][NextStray]_vars

\* ------------------------------------------------ the two renderings
\* The slices handed to the renderers: up to MaxFormatItems items with
\* distinct ids of FormatIds, in any order.
MaxFormatItems == 2
FormatIds == {1, 2, 3}

FormatItems == [id : FormatIds, text : Texts, done : BOOLEAN]

FormatSlices ==
    {s \in UNION {[1..n -> FormatItems] : n \in 0..MaxFormatItems} :
        \A i, j \in 1..Len(s) : i # j => s[i].id # s[j].id}

\* A task about to render the slice its with the selection set.
FormatTask(its, set) ==
    [IdleTask EXCEPT !.kind = "format", !.pc = "format", !.its = its, !.selected = set]

\* The rows of chat 1 behind the slice its, as read (fresh) or with every
\* done flag cleared since the slice was read.
StoredRows(its, fresh) ==
    {[id |-> its[i].id, chat_id |-> 1, text |-> its[i].text,
      done |-> fresh /\ its[i].done] : i \in 1..Len(its)}

InitFormat ==
    /\ items_seq = Cardinality(FormatIds)
    /\ chat_state = {}
    /\ delete_session = {}
    /\ msgs = [c \in Chats |-> << >>]
    /\ timers = {}
    /\ faults = 0
    /\ started = {u \in Users : u \in ListChats}
    /\ odd = [u \in Users |-> {}]
    /\ flips = {}
    /\ assigned = {}
    /\ tokens = {}
    /\ limiter = None
    /\ now = 0
    /\ expired = << >>
    /\ admitted = << >>
    /\ late = {}
    /\ \E its \in FormatSlices, set \in SUBSET FormatIds, fresh \in BOOLEAN :
         /\ items = StoredRows(its, fresh)
         /\ tasks = [t \in Tasks |-> IF t = 1 THEN FormatTask(its, set) ELSE IdleTask]

\* format_list(&items)
FormatList ==
    /\ tasks[1].pc = "format"
    /\ tasks' = [tasks EXCEPT ![1].info = Some(format_list(tasks[1].its)),
                              ![1].pc = "done", ![1].path = "format_list"]
    /\ UNCHANGED <<late, admitted, tokens, limiter, expired, now, items, items_seq, chat_state,
                   delete_session, msgs, timers, faults, started, odd, flips, assigned>>

\* format_delete_list(&items, &selected)
FormatDeleteList ==
    /\ tasks[1].pc = "format"
    /\ tasks' = [tasks EXCEPT ![1].info = Some(format_delete_list(tasks[1].its,
                                                                  tasks[1].selected)),
                              ![1].pc = "done", ![1].path = "format_delete_list"]
    /\ UNCHANGED <<late, admitted, tokens, limiter, expired, now, items, items_seq, chat_state,
                   delete_session, msgs, timers, faults, started, odd, flips, assigned>>

NextFormat == FormatList \/ FormatDeleteList

SpecFormat == InitFormat /\ [][NextFormat]_vars

\* ------------------------------------------------------------- properties
\* The handler that just returned, the state it started from, and the rows
\* of delete_session its user had then and has now.
Fin == tasks[1]
Pre == Unwrap(tasks[1].pre)
Handled(kind) == tasks[1].pc = "done" /\ tasks[1].kind = kind
Pressed(path) == Handled("callback") /\ tasks[1].path = path
RowsOf(tbl, u) == {r \in tbl : r.user_id = u}
PriorRows == RowsOf(Pre.delete_session, Unwrap(Fin.from))
OwnRows == RowsOf(delete_session, Unwrap(Fin.from))

\* The press carried a message other than the panel of its user's session,
\* or its user had no session.
StalePress == \A r \in PriorRows : r.dm_message_id # Some(Fin.msg)

\* C1: a selection toggle or a commit that is stale (its message is not the
\* panel_ref of its user's session, that panel_ref is unset, or the user has
\* no session) leaves the delete_session table as it was -- no selected set
\* changed, no record created or removed -- and leaves every item as it was.
C1_StalePressChangesNothing ==
    (Pressed("select") \/ Pressed("done")) /\ StalePress
        => delete_session = Pre.delete_session /\ items = Pre.items

\* A selection toggle from an old panel while its user has a session with
\* another panel.
C1_Witness ==
    /\ Pressed("select")
    /\ \E r \in PriorRows : IsSome(r.dm_message_id) /\ r.dm_message_id # Some(Fin.msg)

\* C2: a commit from the panel of its user's session removes exactly the
\* items of the session's list whose ids are selected (a selected id that is
\* gone already is skipped), leaves every other item of every list as it
\* was, and leaves its user without a session record.
C2_CommitRemovesSelected ==
    Pressed("done") =>
        \A r \in PriorRows :
            r.dm_message_id = Some(Fin.msg) =>
                /\ items = {i \in Pre.items :
                                ~(i.chat_id = r.chat_id /\ i.id \in parse_selected(r.selected))}
                /\ OwnRows = {}

\* A commit of two selected ids, one of an item still there and one of an
\* item the API deleted meanwhile.
C2_Witness ==
    /\ Pressed("done")
    /\ \E r \in PriorRows :
         /\ r.dm_message_id = Some(Fin.msg)
         /\ \E x \in parse_selected(r.selected) : \A i \in Pre.items : i.id # x
         /\ \E i \in Pre.items : i.chat_id = r.chat_id /\ i.id \in parse_selected(r.selected)

PointersOf(tbl, c) == {r \in tbl : r.chat_id = c}

\* The handler sent a fresh list message and its send succeeded.
FreshListSent ==
    /\ Handled("send_list") \/ Handled("insert_items")
    /\ IsSome(Fin.sent)

\* C4: after a show-fresh-list whose send succeeded -- the first for its list
\* or one that follows others -- the list has exactly one render pointer, it
\* is the message that send returned, the newest of the chat, and no chat
\* ever has two pointers.
C4_PointerReplaced ==
    /\ \A c \in Chats : Cardinality(PointersOf(chat_state, c)) <= 1
    /\ FreshListSent =>
           /\ PointersOf(chat_state, Fin.chat) =
                  {[chat_id |-> Fin.chat, last_list_message_id |-> Unwrap(Fin.sent)]}
           /\ Unwrap(Fin.sent) = Len(msgs[Fin.chat])

\* The third fresh list of a chat in a row replaced the pointer to the second.
C4_Witness ==
    /\ Handled("send_list")
    /\ Fin.sent = Some(3)
    /\ PointersOf(Pre.chat_state, Fin.chat) =
           {[chat_id |-> Fin.chat, last_list_message_id |-> 2]}

\* The ids of a store call all belong to items of other lists than the call's.
ForeignIds ==
    \A k \in 1..Len(Fin.ids) :
        \E i \in Pre.items : i.id = Fin.ids[k] /\ i.chat_id # Fin.chat

\* C5: toggle, delete and delete_many called with list B and ids of items of
\* other lists affect no row, return Ok and leave every item as it was; no
\* call with list B changes an item of another list.
C5_CrossListIsolation ==
    Handled("store") =>
        /\ ForeignIds => Fin.affected = 0 /\ Fin.result = "ok" /\ items = Pre.items
        /\ {i \in items : i.chat_id # Fin.chat} = {i \in Pre.items : i.chat_id # Fin.chat}

\* delete_many was called with list B and the ids of two items of list A.
C5_Witness ==
    /\ Handled("store")
    /\ Fin.path = "delete_items_count"
    /\ Len(Fin.ids) = 2
    /\ ForeignIds

\* The selected set of a session row, decoded.
Selected(r) == parse_selected(r.selected)

\* C6: within a session the selected set holds exactly the ids toggled an
\* odd number of times from the session's panel: an even number of toggles
\* of x leaves x as it was, an odd number flips x, and no toggle of x touches
\* another id.
C6_SelectionXor ==
    /\ \A r \in delete_session : Selected(r) = odd[r.user_id]
    /\ Pressed("select") /\ ~StalePress =>
           \A p \in PriorRows, r \in OwnRows :
               Selected(r) \ {Fin.id} = Selected(p) \ {Fin.id}
                   /\ (Fin.id \in Selected(r)) = (Fin.id \notin Selected(p))

\* A second toggle of an id took it out of the selected set and left the
\* other selected id in.
C6_Witness ==
    /\ Pressed("select") /\ ~StalePress
    /\ \E p \in PriorRows, r \in OwnRows :
         /\ Fin.id \in Selected(p)
         /\ Selected(r) = Selected(p) \ {Fin.id}
         /\ Selected(r) # {}

\* An Enter by a user with a sender, in a chat that had a render pointer.
EnterWithPointer ==
    /\ Handled("enter") /\ IsSome(Fin.from)
    /\ PointersOf(Pre.chat_state, Fin.chat) # {}

\* C7: after an Enter in a chat with a render pointer by a user who had a
\* session, the deletion of the prior notice and panel was requested and the
\* user has no record with the prior panel_ref, whether the list has items
\* or not.
C7_ReEnterRetiresSession ==
    EnterWithPointer =>
        \A p \in PriorRows :
            /\ IsSome(p.dm_message_id) =>
                   /\ \A r \in OwnRows : r.dm_message_id # p.dm_message_id
                   /\ \E k \in 1..Len(Fin.calls) :
                          /\ Fin.calls[k].op = "delete"
                          /\ Fin.calls[k].chat = Unwrap(Fin.from)
                          /\ Fin.calls[k].msg = Unwrap(p.dm_message_id)
            /\ IsSome(p.notice_message_id) =>
                   \E k \in 1..Len(Fin.calls) :
                       /\ Fin.calls[k].op = "delete"
                       /\ Fin.calls[k].chat = Unwrap(p.notice_chat_id)
                       /\ Fin.calls[k].msg = Unwrap(p.notice_message_id)

\* The panel of an Enter was delivered.
PanelDelivered == Handled("enter") /\ IsSome(Fin.sent)

\* The record a delivered Enter leaves, but for its notice columns.
SessionStarted(r) ==
    /\ r.chat_id = Fin.chat
    /\ r.selected = ""
    /\ r.dm_message_id = Fin.sent
    /\ msgs[Unwrap(Fin.from)][Unwrap(Fin.sent)].kind = "panel"

PanelRefused == Handled("enter") /\ Len(Fin.its) > 0 /\ ~IsSome(Fin.sent)

\* The messages of chat c that the handler sent.
NewIn(c) == {msgs[c][k] : k \in (Len(Pre.msgs[c]) + 1)..Len(msgs[c])}

\* A transient message with the given text is in the chat of the handler and
\* its deletion is scheduled.
TransientPosted(text) ==
    /\ IsSome(Fin.info)
    /\ msgs[Fin.chat][Unwrap(Fin.info)] = Message("info", text, NoKeyboard)
    /\ <<Fin.chat, Unwrap(Fin.info)>> \in timers

\* After a refused panel no notice was posted and the user's record has no
\* panel_ref; a press of a user whose record has no panel_ref is ignored.
NoActiveSession ==
    /\ PanelRefused =>
           /\ \A c \in Chats : \A m \in NewIn(c) : m.kind # "notice"
           /\ \A r \in OwnRows : ~IsSome(r.dm_message_id) /\ ~IsSome(r.notice_message_id)
    /\ (Pressed("select") \/ Pressed("done")) /\ PriorRows # {}
           /\ (\A p \in PriorRows : ~IsSome(p.dm_message_id))
           => delete_session = Pre.delete_session /\ items = Pre.items

EnterNoPointer == Handled("enter") /\ PointersOf(Pre.chat_state, Fin.chat) = {}

\* The tables are as the handler found them.
StoreUntouched ==
    /\ items = Pre.items
    /\ items_seq = Pre.items_seq
    /\ chat_state = Pre.chat_state
    /\ delete_session = Pre.delete_session

\* The handler left the transport as it was but for a transient message
\* with the given text, if its send succeeded.
OnlyTransient(text) ==
    /\ \A c \in Chats \ {Fin.chat} : msgs[c] = Pre.msgs[c]
    /\ IF Fin.result = "ok"
       THEN /\ msgs[Fin.chat] = Append(Pre.msgs[Fin.chat], Message("info", text, NoKeyboard))
            /\ Fin.info = Some(Len(msgs[Fin.chat]))
            /\ timers = Pre.timers \cup {<<Fin.chat, Unwrap(Fin.info)>>}
       ELSE msgs = Pre.msgs /\ timers = Pre.timers

\* C10 as stated: an Enter in a chat with no render pointer changes no table
\* and does nothing but send the transient reply and schedule its deletion.
C10_EnterNoPointerOnlyReplies ==
    EnterNoPointer =>
        /\ StoreUntouched
        /\ OnlyTransient(NO_ACTIVE_LIST_TO_EDIT)
        /\ \A k \in 1..Len(Fin.calls) : Fin.calls[k].op = "send"

\* C10 amended: besides the reply the handler asks the transport to delete
\* the command message it was called with, and nothing else.
C10_EnterNoPointerFrame ==
    EnterNoPointer =>
        /\ StoreUntouched
        /\ OnlyTransient(NO_ACTIVE_LIST_TO_EDIT)
        /\ Len(Fin.calls) = 2
        /\ Fin.calls[1].op = "delete" /\ Fin.calls[1].chat = Fin.chat /\ Fin.calls[1].msg = 0
        /\ Fin.calls[2].op = "send" /\ Fin.calls[2].chat = Fin.chat

\* A user with a session entered in a chat with no render pointer and got
\* the reply.
C10_Witness ==
    /\ EnterNoPointer /\ Fin.result = "ok"
    /\ IsSome(Fin.from) /\ PriorRows # {}
    /\ TransientPosted(NO_ACTIVE_LIST_TO_EDIT)

\* An Enter in a chat that has a render pointer and no item.
EnterEmptyList ==
    /\ Handled("enter")
    /\ PointersOf(Pre.chat_state, Fin.chat) # {}
    /\ \A i \in Pre.items : i.chat_id # Fin.chat

\* C11: an Enter in a chat that has a render pointer and no item creates no
\* session record and changes none, sends no message (no panel, no notice),
\* and leaves the items, the id counter and the render pointers as they were.
C11_EnterEmptyList ==
    EnterEmptyList =>
        /\ delete_session = Pre.delete_session
        /\ \A k \in 1..Len(Fin.calls) : Fin.calls[k].op # "send"
        /\ \A c \in Chats : NewIn(c) = {}
        /\ items = Pre.items /\ items_seq = Pre.items_seq
        /\ chat_state = Pre.chat_state
        /\ Fin.result = "ok"

\* A user without a session entered in a chat whose last item the API had
\* deleted.
C11_Witness ==
    /\ EnterEmptyList
    /\ IsSome(Fin.from) /\ PriorRows = {}
    /\ Pre.items_seq > 0

\* The handler is a show-fresh-list, an Enter, a commit or a toggle-done
\* (the last two update the list in place).
ListOrDeleteOperation ==
    \/ Handled("send_list") \/ Handled("insert_items") \/ Handled("enter")
    \/ Pressed("done") \/ Pressed("toggle")

\* The last transport call of the handler was a send, an edit or a delete
\* and it failed.
LastCallFailed ==
    /\ Len(Fin.calls) > 0
    /\ Fin.calls[Len(Fin.calls)].op \in {"send", "edit", "delete"}
    /\ ~Fin.calls[Len(Fin.calls)].ok

\* C12: no failed send, edit or delete of a show-fresh-list, an
\* update-in-place, an Enter or a commit ends the operation: when no
\* statement of the store failed, the handler does not return an error with
\* a failed send, edit or delete as the last call it made.
C12_TransportFailureNeverAborts ==
    ListOrDeleteOperation /\ ~Fin.failed => ~(Fin.result = "err" /\ LastCallFailed)

\* The handler called update_message: it asked for an edit of a list message.
UpdatedInPlace ==
    /\ Pressed("toggle") \/ Pressed("done")
    /\ \E k \in 1..Len(Fin.calls) : Fin.calls[k].op = "edit"

\* The edit of update_message failed.
EditFailed == \E k \in 1..Len(Fin.calls) : Fin.calls[k].op = "edit" /\ ~Fin.calls[k].ok

\* C13: an update-in-place, from a toggle-done or from a commit, leaves the
\* render pointer of every chat as it was, whether its edit succeeds or fails
\* and whether the list is empty or not; after a failed edit the caller goes
\* on as after a success: the commit removes the session record, and the
\* handler reaches answer_callback_query and returns an error only if that
\* call fails.
C13_UpdateInPlaceKeepsPointer ==
    UpdatedInPlace =>
        /\ chat_state = Pre.chat_state
        /\ Fin.calls[Len(Fin.calls)].op = "answer"
        /\ Fin.result = (IF Fin.calls[Len(Fin.calls)].ok THEN "ok" ELSE "err")
        /\ Pressed("done") => OwnRows = {}

\* A commit emptied its list and the edit of the list message failed.
C13_Witness ==
    /\ UpdatedInPlace /\ EditFailed
    /\ Pressed("done")
    /\ Len(Fin.its) = 0
    /\ Fin.result = "ok"
    /\ chat_state # {}

\* C14: toggles of one item are atomic at the store: whatever the
\* interleaving of the handlers, an item's done flag is its initial value
\* (not done) after an even number of completed toggle statements on it and
\* the negation after an odd number; no toggle is lost.
C14_NoLostToggle == \A r \in items : r.done = (r.id \in flips)

\* Two handlers that started from the same state have both toggled the same
\* item, and the item is back at not done.
C14_Witness ==
    /\ \A t \in Tasks :
         /\ tasks[t].kind = "callback" /\ tasks[t].path = "toggle"
         /\ tasks[t].pc \notin {"idle", "g_toggle"}
         /\ tasks[t].affected = 1
    /\ tasks[1].id = tasks[2].id
    /\ tasks[1].pre = tasks[2].pre
    /\ \E r \in items : r.id = tasks[1].id /\ ~r.done

\* A statement against the store failed in the handler that just returned.
StoreFailed == tasks[1].pc = "done" /\ Fin.failed

\* C15: when a statement against the store fails, the handler returns the
\* error and nothing that earlier steps of the handler did remains: the
\* items, the render pointers and the session records are as they were
\* when the handler started.
C15_StoreFailureLeavesNothing ==
    StoreFailed =>
        /\ Fin.result = "err"
        /\ items = Pre.items
        /\ chat_state = Pre.chat_state
        /\ delete_session = Pre.delete_session

\* A commit pressed on the panel of its user's session while nothing is
\* selected.
EmptyCommit ==
    /\ Pressed("done")
    /\ \E r \in PriorRows : r.dm_message_id = Some(Fin.msg) /\ Selected(r) = {}

\* C16: a commit from the panel of its user's session with nothing selected
\* deletes no item of any list and leaves its user without a session record.
C16_EmptyCommitClearsSession ==
    EmptyCommit => items = Pre.items /\ items_seq = Pre.items_seq /\ OwnRows = {}

\* An empty commit while the session's list has an item and another user
\* has a session of their own, which stays.
C16_Witness ==
    /\ EmptyCommit
    /\ \E r \in PriorRows : \E i \in Pre.items : i.chat_id = r.chat_id
    /\ OwnRows = {}
    /\ delete_session # {}

\* The rows the handler added: their ids were not in the table before.
AddedRows == {r \in items : \A i \in Pre.items : i.id # r.id}

\* C17: no two items of the store share an id, whatever their lists, and an
\* item added by add or add_many -- after any adds, deletes, delete_manys
\* and delete_alls -- has an id greater than every id an item ever had, the
\* ids of deleted items included; each added row is a row more.
C17_IdsNeverReused ==
    /\ \A a, b \in items : a.id = b.id => a = b
    /\ \A r \in items : r.id \in assigned
    /\ tasks[1].pc = "done" =>
           /\ \A r \in AddedRows : \A a \in Pre.assigned : r.id > a
           /\ Handled("items") /\ Fin.path \in {"add_item_count", "add_items_count"} =>
                  /\ Cardinality(AddedRows) = Fin.affected
                  /\ Cardinality(items) = Cardinality(Pre.items) + Fin.affected

\* An item is added to a store that is empty because every item added
\* before was deleted: its id follows the largest id handed out.
C17_Witness ==
    /\ Handled("items") /\ Fin.path = "add_item_count"
    /\ Pre.items = {}
    /\ Pre.assigned # {}
    /\ \E r \in AddedRows : r.chat_id = Fin.chat /\ Pre.assigned = 1..(r.id - 1)

\* The rows of chat c.
RowsIn(tbl, c) == {r \in tbl : r.chat_id = c}

\* The texts of a sequence of items.
TextsOf(its) == [k \in 1..Len(its) |-> its[k].text]

\* C18: after any adds, add_manys, toggles and deletes, list(list_id) returns
\* each live item of that list once, with its text and done flag, and no
\* item of another list, in ascending id; that is creation order: an add or
\* add_many leaves the list as it was, followed by the new items in the
\* order they were given, and no statement changes what another list returns.
C18_ListInCreationOrder ==
    Handled("items") =>
        /\ Fin.path = "list_items" =>
               /\ Range(Fin.its) = {Item(r) : r \in RowsIn(items, Fin.chat)}
               /\ Len(Fin.its) = Cardinality(RowsIn(items, Fin.chat))
               /\ \A j, k \in 1..Len(Fin.its) : j < k => Fin.its[j].id < Fin.its[k].id
        /\ Fin.path \in {"add_item_count", "add_items_count"} =>
               LET before == list_items(Pre.items, Fin.chat)
                   after == list_items(items, Fin.chat)
               IN /\ SubSeq(after, 1, Len(before)) = before
                  /\ TextsOf(after) = TextsOf(before) \o Fin.texts
        /\ \A c \in Chats \ {Fin.chat} : list_items(items, c) = list_items(Pre.items, c)

\* list returns two items of its list, the first done, while an item added
\* between them belongs to the other list.
C18_Witness ==
    /\ Handled("items") /\ Fin.path = "list_items"
    /\ Len(Fin.its) = 2
    /\ Fin.its[1].id = 1 /\ Fin.its[1].done /\ Fin.its[2].id = 3
    /\ \E r \in items : r.id = 2 /\ r.chat_id # Fin.chat

\* add_many or delete_many was called with nothing to add or to delete.
EmptyInput ==
    /\ Handled("items")
    /\ \/ Fin.path = "add_items_count" /\ Fin.texts = << >>
       \/ Fin.path = "delete_items_count" /\ Fin.ids = << >>

\* C20: add_items_count with no item and delete_items_count with no id
\* return Ok(0) and leave the items and the id counter as they were.
C20_EmptyInputNoOp ==
    EmptyInput =>
        /\ Fin.result = "ok" /\ Fin.affected = 0
        /\ items = Pre.items /\ items_seq = Pre.items_seq

\* add_many with no item on a list that has items.
C20_Witness ==
    /\ EmptyInput /\ Fin.path = "add_items_count"
    /\ Fin.result = "ok"
    /\ RowsIn(items, Fin.chat) # {}

\* C19: for every finite set of ids, the empty set included, parsing the
\* text join_selected writes for the set gives the set back:
\* parse_selected(join_selected(S)) = S.
C19_RoundTrip ==
    Handled("codec") =>
        /\ Fin.path = join_selected(Fin.selected)
        /\ Fin.todo = Fin.selected
        /\ Fin.selected = {} => Fin.path = ""

\* The set of all eight ids came back from its text, written in ascending
\* order with the negative ids first.
C19_Witness ==
    /\ Handled("codec")
    /\ Fin.selected = CodecIds
    /\ Fin.path = "-12,-1,0,1,7,10,21,100"
    /\ Fin.todo = CodecIds

\* An API toggle or delete reached its handler with the id of an item that
\* another list than the token's owned.
ApiForeignItem ==
    /\ Handled("api")
    /\ Fin.served
    /\ Fin.path \in {"toggle", "delete"}
    /\ \E r \in Pre.items : r.id = Fin.id /\ r.chat_id # Fin.chat

\* C21: an API toggle or delete authenticated with a token of list A that
\* names the id of an item of another list B affects zero rows, leaves B's
\* item (and every other item) as it was, and is answered with not-found.
C21_ApiForeignItemNotFound ==
    ApiForeignItem =>
        /\ Fin.affected = 0
        /\ items = Pre.items
        /\ Fin.result = "not_found"

\* A toggle with list 1's token named a done item of list 10 and a delete
\* with it would have done the same.
C21_Witness ==
    /\ ApiForeignItem
    /\ Fin.path = "toggle"
    /\ \E r \in Pre.tokens : Fin.bearer = Some(r.token) /\ r.chat_id = Fin.chat
    /\ \E r \in items : r.id = Fin.id /\ r.chat_id # Fin.chat /\ r.done
    /\ Fin.result = "not_found"

\* Message m of chat c was sent as one of the transient informational
\* messages.
TransientTexts == {NO_ACTIVE_LIST_TO_EDIT, DELETE_DM_FAILED, LIST_NUKED}
Transient(c, m) == Exists(msgs, c, m) /\ msgs[c][m].text \in TransientTexts
Requested(c, m) == <<c, m>> \in DOMAIN expired

\* The handler in flight returns having posted message m of chat c, a
\* transient one.
ReturnsTransient(c, m) ==
    /\ tasks[1].pc # "done"
    /\ tasks'[1].pc = "done"
    /\ \E i \in 1..Len(tasks'[1].calls) : tasks'[1].calls[i] = Call("send", c, m, TRUE)
    /\ msgs'[c][m].text \in TransientTexts

\* C22: every transient informational message is eventually requested for
\* deletion by a background task (time and again every one posted so far
\* has been), and never twice; the handler that posted
\* it returns while that request is still to come; and a deletion, failed or
\* not, changes nothing a handler holds.
C22_TransientExpires ==
    /\ []<>(\A c \in Chats, m \in 1..MaxArchiveMsg : Transient(c, m) => Requested(c, m))
    /\ [](\A p \in DOMAIN expired : expired[p] = 1)
    /\ [][\A c \in Chats, m \in 1..MaxArchiveMsg :
              ReturnsTransient(c, m) =>
                  <<c, m>> \in timers' /\ <<c, m>> \notin DOMAIN expired']_vars
    /\ [][expired' # expired => tasks' = tasks]_vars

\* The three kinds were posted, and the deletion of one was requested and
\* failed: the message is still there.
C22_Witness ==
    /\ \E c \in Chats, m \in 1..MaxArchiveMsg :
           Requested(c, m) /\ Live(msgs, c, m) /\ msgs[c][m].text = LIST_NUKED
    /\ \E c \in Chats, m \in 1..MaxArchiveMsg :
           Requested(c, m) /\ msgs[c][m].kind = "deleted"

\* The items and the pointer of list c, now and when the handler started.
ItemsOf(tbl, c) == {r \in tbl : r.chat_id = c}
PointerOf(tbl, c) == get_last_list_message_id(tbl, c)
OthersKept ==
    \A c \in ListChats \ {Fin.chat} :
        /\ ItemsOf(items, c) = ItemsOf(Pre.items, c)
        /\ PointerOf(chat_state, c) = PointerOf(Pre.chat_state, c)
Emptied == ItemsOf(items, Fin.chat) = {} /\ PointerOf(chat_state, Fin.chat) = None
ListKept ==
    /\ ItemsOf(items, Fin.chat) = ItemsOf(Pre.items, Fin.chat)
    /\ PointerOf(chat_state, Fin.chat) = PointerOf(Pre.chat_state, Fin.chat)
WasActive ==
    /\ PointerOf(Pre.chat_state, Fin.chat) # None
    /\ ItemsOf(Pre.items, Fin.chat) # {}

\* C23: after /archive of a list with a render pointer and an item, and after
\* /nuke of any list, the list has no item and no pointer and every other
\* list has the items and the pointer it had; /archive of a list with no
\* pointer or no item changes neither.
C23_ArchiveNukeEmpty ==
    /\ Handled("archive") /\ WasActive => Emptied /\ OthersKept
    /\ Handled("nuke") => Emptied /\ OthersKept
    /\ Handled("archive") /\ ~WasActive => ListKept /\ OthersKept

\* /archive_done returned for a list that had a render pointer; the done
\* and the not-done items the list had.
ArchiveCheckedRan ==
    Handled("archive_checked") /\ PointerOf(Pre.chat_state, Fin.chat) # None
DoneBefore == {r \in ItemsOf(Pre.items, Fin.chat) : r.done}
OpenBefore == {r \in ItemsOf(Pre.items, Fin.chat) : ~r.done}

\* The pointer of the list is a list message sent by this handler that shows
\* the items its.
PointsAtNewList(its) ==
    \E m \in 1..Len(msgs[Fin.chat]) :
        /\ PointerOf(chat_state, Fin.chat) = Some(m)
        /\ m > Len(Pre.msgs[Fin.chat])
        /\ Live(msgs, Fin.chat, m)
        /\ msgs[Fin.chat][m].text = format_list(order_by_id(its)).text

\* C24: /archive_done on a list with a render pointer removes exactly the
\* done items and keeps the others as they were; with some but not all items
\* done the pointer then references the list message newly sent for the
\* remaining items, with none done neither items nor pointer change, with
\* all done the list ends as after /archive, with no item and no pointer.
C24_ArchiveCheckedRemovesDone ==
    ArchiveCheckedRan =>
        /\ ItemsOf(items, Fin.chat) = OpenBefore
        /\ OthersKept
        /\ DoneBefore # {} /\ OpenBefore # {} => PointsAtNewList(OpenBefore)
        /\ DoneBefore = {} => ListKept
        /\ DoneBefore # {} /\ OpenBefore = {} => Emptied

\* insert_items returned; the rows it added, in the order of their ids.
InsertRan == Handled("insert_items")
InsertedRows == order_by_id(items \ Pre.items)
SendCalls(tk) == SelectSeq(tk.calls, LAMBDA c : c.op = "send")

\* C25: insert_items adds every given text as a new item of the list, in the
\* order given, and returns their count; with a positive count it shows the
\* fresh list exactly once; with no text it adds nothing, sends nothing and
\* leaves the render pointer as it was.
C25_InsertItemsAddsAndShows ==
    InsertRan =>
        /\ Pre.items \subseteq items
        /\ Len(InsertedRows) = Len(Fin.given)
        /\ \A r \in items \ Pre.items : r.chat_id = Fin.chat
        /\ \A i \in 1..Len(InsertedRows) :
               /\ InsertedRows[i].text = Fin.given[i]
               /\ ~InsertedRows[i].done
               /\ InsertedRows[i].id \notin Pre.assigned
        /\ Fin.result = "ok" /\ Fin.affected = Len(Fin.given)
        /\ Len(Fin.given) > 0 => Len(SendCalls(Fin)) = 1
        /\ Len(Fin.given) = 0 =>
               Fin.calls = << >> /\ msgs = Pre.msgs /\ chat_state = Pre.chat_state

\* The rows of tokens that carried the request's bearer and were not revoked
\* when it arrived.
BearerRows ==
    {r \in Pre.tokens : Fin.bearer = Some(r.token) /\ r.revoked_at = None}

\* The revocation a row had stays as it was.
RevocationsKept ==
    \A r \in Pre.tokens :
        r.revoked_at # None =>
            \E q \in tokens :
                q.token = r.token /\ q.chat_id = r.chat_id /\ q.revoked_at = r.revoked_at

\* C26: an API request reaches a route only with the bearer of a stored token
\* that is not revoked, and then reads and writes only the list of that
\* token; with no bearer, an unknown one or a revoked one it is answered
\* unauthorized, no item changes and no row of tokens changes (no
\* last_used_at is written); a revoked token stays revoked, and revoking it
\* again reports false and leaves revoked_at as it was.
C26_BearerTokenGuardsApi ==
    /\ Handled("api") /\ Fin.served =>
           /\ \E r \in BearerRows : r.chat_id = Fin.chat
           /\ \A c \in Chats \ {Fin.chat} : ItemsOf(items, c) = ItemsOf(Pre.items, c)
           /\ \A r \in items \ Pre.items : r.chat_id = Fin.chat
           /\ \A i \in 1..Len(Fin.its) :
                  \E r \in ItemsOf(Pre.items, Fin.chat) : Item(r) = Fin.its[i]
    /\ Handled("api") /\ BearerRows = {} =>
           /\ Fin.result = "unauthorized"
           /\ ~Fin.served
           /\ items = Pre.items
           /\ tokens = Pre.tokens
    /\ tasks[1].pc = "done" => RevocationsKept
    /\ Handled("revoke_token")
           /\ (\E r \in Pre.tokens :
                   r.token = Fin.token /\ r.chat_id = Fin.chat /\ r.revoked_at # None) =>
           /\ Fin.affected = 0
           /\ tokens = Pre.tokens
           /\ \E m \in 1..Len(msgs[Fin.chat]) :
                  m > Len(Pre.msgs[Fin.chat]) /\ msgs[Fin.chat][m].text = TOKEN_NOT_FOUND

\* A request with a token revoked a second before was turned away, its
\* last_used_at left at the use before the revocation.
C26_Witness ==
    /\ Handled("api")
    /\ Fin.result = "unauthorized"
    /\ Fin.path = "delete"
    /\ \E r \in tokens :
           /\ Fin.bearer = Some(r.token)
           /\ r.revoked_at = Some(0)
           /\ r.last_used_at = Some(0)
           /\ timestamp(now) = 1
           /\ \E i \in items : i.chat_id = r.chat_id /\ i.id = Fin.id

\* The requests among the instants ts let through at an instant t with
\* lo <= t < hi.
AdmittedWithin(ts, lo, hi) ==
    Cardinality({i \in DOMAIN ts : lo <= ts[i] /\ ts[i] < hi})

\* The handled request came past require_auth, to the limiter.
ReachedLimiter == Handled("api") /\ Fin.result # "unauthorized" /\ Pre.limiter # None

\* The requests let through before the handled one.
AdmittedBefore == IF Fin.served THEN SubSeq(admitted, 1, Len(admitted) - 1) ELSE admitted

\* The second that ends now holds as many requests let through before the
\* handled one as the limit allows.
QuotaSpent ==
    LET l == Unwrap(Pre.limiter)
    IN AdmittedWithin(AdmittedBefore, now - l.window + 1, now + 1) >= l.limit

\* C27: with a limit of N requests per second configured, no second (an
\* interval [t, t + 1s)) holds more than N requests the limiter let through;
\* a request that reaches the limiter while N requests let through are
\* within the last second is answered rate_limited (429), reaches no route
\* handler, leaves the items alone and is not counted: the limiter counts,
\* within the last second, exactly the requests it let through.
C27_RateLimitWindow ==
    limiter # None =>
        LET l == Unwrap(limiter)
        IN /\ \A t \in 0..MaxNow : AdmittedWithin(admitted, t, t + l.window) <= l.limit
           /\ Len(pop_expired(l.timestamps, now, l.window))
                  = AdmittedWithin(admitted, now - l.window + 1, now + 1)
           /\ ReachedLimiter /\ QuotaSpent =>
                  /\ Fin.result = "rate_limited"
                  /\ ~Fin.served
                  /\ items = Pre.items
                  /\ items_seq = Pre.items_seq
                  /\ l.timestamps
                         = pop_expired(Unwrap(Pre.limiter).timestamps, now, l.window)

\* A request is refused in the second after the quota was spent although the
\* first request let through is more than a second old, and the items it
\* was to change are there.
C27_Witness ==
    /\ ReachedLimiter
    /\ QuotaSpent
    /\ Fin.result = "rate_limited"
    /\ Fin.path = "delete"
    /\ \E r \in items : r.id = Fin.id /\ r.chat_id = Fin.chat
    /\ now = MaxNow
    /\ Len(admitted) > RateLimit

\* The item the pressed button names is an item of the list of the chat the
\* pressed message is in.
PressedItemBelongs == \E r \in Pre.items : r.id = Fin.id /\ r.chat_id = Fin.chat

\* C28: a toggle-done press on a list message in chat C carrying item id i
\* flips the done flag of item i exactly when i is an item of C's list, and
\* changes no other item's flag, no item's text, the set of items, no delete
\* session and no render pointer.
C28_ToggleDoneFrame ==
    Pressed("toggle") =>
        /\ items = {IF r.id = Fin.id /\ r.chat_id = Fin.chat
                    THEN [r EXCEPT !.done = ~r.done] ELSE r : r \in Pre.items}
        /\ Fin.affected = (IF PressedItemBelongs THEN 1 ELSE 0)
        /\ items_seq = Pre.items_seq
        /\ delete_session = Pre.delete_session
        /\ chat_state = Pre.chat_state

\* A press flipped one item of a list of two back to open while the edit of
\* the list message failed, and the list has its render pointer.
C28_Witness ==
    /\ Pressed("toggle")
    /\ PressedItemBelongs
    /\ \E r \in items : r.id = Fin.id /\ ~r.done
    /\ \E r \in items : r.id # Fin.id /\ r.chat_id = Fin.chat
    /\ \E i \in DOMAIN Fin.calls : Fin.calls[i].op = "edit" /\ ~Fin.calls[i].ok
    /\ IsSome(get_last_list_message_id(chat_state, Fin.chat))

\* No handler is in flight.
Quiet == \A t \in Tasks : tasks[t].pc \in {"idle", "done"}

EnterAndCommitReturned(e, d) ==
    /\ tasks[e].pc = "done" /\ tasks[e].kind = "enter" /\ IsSome(tasks[e].sent)
    /\ tasks[d].pc = "done" /\ tasks[d].kind = "callback" /\ tasks[d].path = "done"
    /\ tasks[d].from = tasks[e].from
    /\ tasks[d].msg # Unwrap(tasks[e].sent)

\* C30: however a /delete and a commit pressed on the previous panel of the
\* same user interleave, once both handlers returned and the new panel was
\* delivered the user has a session whose panel is the new panel.
C30_ReenterKeepsNewPanel ==
    \A e \in Tasks, d \in Tasks :
        EnterAndCommitReturned(e, d) =>
            \E r \in delete_session :
                r.user_id = Unwrap(tasks[e].from) /\ r.dm_message_id = tasks[e].sent

\* Both tasks returned from a /list of chat c and the transport failed no
\* call of the scenario.
BothListsReturned(c) ==
    /\ faults = MaxFaults
    /\ \A t \in Tasks :
           tasks[t].pc = "done" /\ tasks[t].kind = "send_list" /\ tasks[t].chat = c

\* The list messages the two tasks sent to chat c that are still there.
SentAndLive(c) ==
    {m \in DOMAIN msgs[c] :
         /\ Live(msgs, c, m)
         /\ \E t \in Tasks : tasks[t].sent = Some(m)}

SessionUsers(tbl) == {r.user_id : r \in tbl}

\* Task t takes the init step of a /delete of user u, by itself or within a
\* /delete handled at once.
InitStepOf(t, u) ==
    /\ tasks'[t].kind = "enter" /\ tasks'[t].from = Some(u)
    /\ \/ tasks[t].pc = "e_init" /\ tasks'[t].pc # "e_init"
       \/ tasks[t].pc = "idle" /\ tasks'[t].pc = "done"

HandledOnce(tk) ==
    LET pre == Unwrap(tk.pre)
    IN Run([items |-> pre.items, items_seq |-> pre.items_seq, chat_state |-> pre.chat_state,
            delete_session |-> pre.delete_session, msgs |-> pre.msgs, timers |-> pre.timers,
            faults |-> 0, started |-> started, tokens |-> pre.tokens,
            limiter |-> pre.limiter, now |-> pre.now,
            tk |-> [CallbackTask(Unwrap(tk.from), tk.chat, tk.msg, "delete_done")
                       EXCEPT !.pre = tk.pre]])

\* Both tasks returned from the same commit.
CommitHandledTwice ==
    /\ \A t \in Tasks : tasks[t].pc = "done" /\ tasks[t].kind = "callback"
                         /\ tasks[t].path = "done"
    /\ tasks[1].from = tasks[2].from /\ tasks[1].msg = tasks[2].msg
    /\ tasks[1].pre = tasks[2].pre

\* C33: after the same commit was handled twice, one after the other or
\* together, the items, the render pointers and the delete sessions are what
\* handling it once leaves.
C33_CommitTwiceAsOnce ==
    CommitHandledTwice =>
        \E fin \in HandledOnce(tasks[1]) :
            /\ fin.items = items
            /\ fin.chat_state = chat_state
            /\ fin.delete_session = delete_session

\* The commit of a session with a selected item was handled twice, the
\* second handler reading the session before the first destroyed it, and the
\* item is gone.
C33_Witness ==
    /\ CommitHandledTwice
    /\ \A t \in Tasks : IsSome(tasks[t].session) /\ Unwrap(tasks[t].session).selected # {}
    /\ items # Unwrap(tasks[1].pre).items
    /\ delete_session = {}

\* Message m of chat c shows the items its: format_list's text and buttons,
\* or one of the texts for a list without items and no button.
ShowsItems(c, m, its) ==
    /\ Live(msgs, c, m)
    /\ IF Len(its) = 0
       THEN /\ msgs[c][m].text \in {LIST_EMPTY_ADD_ITEM, LIST_NOW_EMPTY}
            /\ msgs[c][m].keyboard = << >>
       ELSE /\ msgs[c][m].text = format_list(its).text
            /\ msgs[c][m].keyboard = format_list(its).keyboard

\* C34: between handlers, with a transport that delivers every call, the
\* message a chat's render pointer names shows the chat's current items.
C34_PointerShowsItems ==
    tasks[1].pc \in {"idle", "done"} =>
        \A c \in ListChats :
            \A m \in 1..MaxViewMsg :
                get_last_list_message_id(chat_state, c) = Some(m) =>
                    ShowsItems(c, m, list_items(items, c))


\* A press toggled an item of the list message /archive_done sent, which the
\* pointer names.
C34_Witness ==
    /\ Pressed("toggle")
    /\ Fin.msg >= 4
    /\ get_last_list_message_id(chat_state, Fin.chat) = Some(Fin.msg)
    /\ Fin.affected = 1

\* Message m of chat c is the panel or the notice of a session in the store.
ReferencedBySession(c, m) ==
    \E u \in Users :
        LET session == get_delete_session(delete_session, u)
        IN /\ IsSome(session)
           /\ \/ c = u /\ Unwrap(session).dm_message_id = Some(m)
              \/ Unwrap(session).notice = Some(<<c, m>>)

\* The panels and notices in the chats that no session refers to.
UnreferencedPanels ==
    {<<c, m>> \in Chats \X (1..MaxReenterMsg) :
        /\ Live(msgs, c, m)
        /\ msgs[c][m].kind \in {"panel", "notice"}
        /\ ~ReferencedBySession(c, m)}

\* C35: however /delete and commit handlers interleave, once all returned
\* and the transport failed no call, every panel and every notice still in a
\* chat is the panel or the notice of a session in the store.
C35_NoPanelLeftUnreferenced ==
    (faults = MaxFaults /\ \A t \in Tasks : tasks[t].pc \in {"idle", "done"}) =>
        UnreferencedPanels = {}

\* The handler of a press on a panel button acted on the session: it changed
\* the session table or the items.
ActedOnSession ==
    /\ Pressed("select") \/ Pressed("done")
    /\ delete_session # Pre.delete_session \/ items # Pre.items

\* C36: a selection toggle or a commit of user u acts on u's session only
\* when it was raised from the stored panel message itself: from u's private
\* chat and with the panel's message id.
C36_CurrentOnlyFromPanelMessage ==
    ActedOnSession =>
        /\ Fin.chat = Unwrap(Fin.from)
        /\ \E r \in PriorRows : r.dm_message_id = Some(Fin.msg)

\* Task t handles a commit it accepted as current: it read a session whose
\* panel is the pressed message.
Committing(t) ==
    /\ tasks[t].kind = "callback" /\ tasks[t].path = "done"
    /\ IsSome(tasks[t].session)
    /\ ~Stale(Unwrap(tasks[t].session), tasks[t].msg)

\* An item the commit of task t selected is still in the store.
SelectedLeft(t) ==
    \E r \in items : /\ r.chat_id = Unwrap(tasks[t].session).chat_id
                     /\ r.id \in Unwrap(tasks[t].session).selected

\* The positions in task t's call log of a call op on message m of chat c.
CallsAt(t, op, c, m) ==
    {i \in 1..Len(tasks[t].calls) :
        tasks[t].calls[i].op = op /\ tasks[t].calls[i].chat = c /\ tasks[t].calls[i].msg = m}

ListUpdated(t) ==
    IsSome(tasks[t].ptr) =>
        CallsAt(t, "edit", Unwrap(tasks[t].session).chat_id, Unwrap(tasks[t].ptr)) # {}

NoticeRequested(t) ==
    LET n == Unwrap(tasks[t].session).notice
    IN IsSome(n) => CallsAt(t, "delete", Unwrap(n)[1], Unwrap(n)[2]) # {}

PanelRequested(t) == CallsAt(t, "delete", tasks[t].chat, tasks[t].msg) # {}

\* Where an accepted commit stands, what it has done and what it has not.
CommitOrder(t) ==
    /\ tasks[t].pc \in {"d_get_pointer", "u_list", "u_edit"} =>
           ~SelectedLeft(t) /\ tasks[t].calls = << >>
    /\ tasks[t].pc = "d_notice" =>
           ~SelectedLeft(t) /\ ListUpdated(t) /\ ~PanelRequested(t)
    /\ tasks[t].pc = "d_clear" =>
           ~SelectedLeft(t) /\ ListUpdated(t) /\ NoticeRequested(t) /\ ~PanelRequested(t)
    /\ tasks[t].pc = "d_delete_panel" =>
           /\ ~SelectedLeft(t) /\ ListUpdated(t) /\ NoticeRequested(t) /\ ~PanelRequested(t)
           /\ RowsOf(delete_session, Unwrap(tasks[t].from)) = {}
    /\ tasks[t].pc = "answer" => PanelRequested(t)

\* C37: an accepted commit deletes the selected items, then updates the list
\* message if the chat has a pointer, then requests the deletion of the
\* notice, then destroys the session and only then requests the deletion of
\* the panel; its step that destroys the session is taken when no item it
\* selected is left in the store.
C37_CommitStepOrder ==
    /\ [](\A t \in Tasks : Committing(t) => CommitOrder(t))
    /\ [][\A t \in Tasks :
            (Committing(t) /\ tasks[t].pc = "d_clear" /\ tasks'[t] # tasks[t]) =>
                /\ ~SelectedLeft(t)
                /\ RowsOf(delete_session', Unwrap(tasks[t].from)) = {}]_vars

\* A commit with a selected item, a pointer and a notice has destroyed its
\* session and is about to request the deletion of the panel.
C37_Witness ==
    \E t \in Tasks :
        /\ Committing(t)
        /\ tasks[t].pc = "d_delete_panel"
        /\ Unwrap(tasks[t].session).selected # {}
        /\ IsSome(tasks[t].ptr)
        /\ IsSome(Unwrap(tasks[t].session).notice)

\* The ids in the selected sets of the sessions that are not the id of an
\* item of the session's list (in scenarios that delete no item: of an item
\* that is or ever was in the list).
StraySelected ==
    {<<r.user_id, id>> : r \in delete_session, id \in 1..MaxItems} \cap
    {p \in Users \X (1..MaxItems) :
        \E r \in delete_session :
            /\ r.user_id = p[1]
            /\ p[2] \in parse_selected(r.selected)
            /\ ~\E x \in items : x.id = p[2] /\ x.chat_id = r.chat_id}

\* C38: every id in the selected set of a session is the id of an item of the
\* session's list.
C38_SelectedAreItemsOfList == StraySelected = {}

\* The renderer named ran on the slice and the selection of task 1.
Rendered(name) == Handled("format") /\ Fin.path = name
View == Unwrap(Fin.info)

\* Button b is the control of item it, marked selected or not.
ControlOf(b, it, marked) ==
    /\ Dispatch(b.data) = [path |-> "select", pc |-> "t_get", id |-> it.id]
    /\ b.text = (IF marked THEN "[-]" ELSE "[ ]") \o " " \o it.text

AllDoneMarker(view, i, it) ==
    /\ view.keyboard[i].text = "[V] " \o it.text
    /\ view.keyboard[i].data = to_string(it.id)

\* The text of a list rendering: the labels of its buttons, a line each.
LinesOf(view) == concat([i \in 1..Len(view.keyboard) |-> view.keyboard[i].text \o "\n"])

====
